---- MODULE Spec2Model ----
(***************************************************************************)
(* Media transport engine of Discord-video-stream: parameter-set injection *)
(* of the demuxer, RTP packetizers and transport encryptor, pacing         *)
(* streams, the voice control connection and the stream controller.        *)
(* Each subsystem has its own specification (SpecNal, SpecRtp, SpecPace,   *)
(* SpecConn, SpecCtl); the variables of the other subsystems stay at their *)
(* initial value under it.                                                 *)
(***************************************************************************)
EXTENDS Integers, Sequences, FiniteSets, TLC

VARIABLES
    \* ---- demuxer: one video packet through h264AddParamSets / h265AddParamSets
    nalCodec,       \* "H264" | "H265" (vInfo.codec)
    nalParamSets,   \* vInfo.extradata: [vps, sps, pps] sequences of NAL units
    nalFrame,       \* packet.data before the call, as its sequence of NAL units
    nalOut,         \* packet.data after the call
    nalPc           \* "read" (packet read, not yet processed) | "pushed"

nalVars == <<nalCodec, nalParamSets, nalFrame, nalOut, nalPc>>

VARIABLES
    \* ---- media connection state read by the UDP layer and the packetizers
    streamOptions,      \* BaseMediaConnection._streamOptions
    webRtcParams,       \* BaseMediaConnection.webRtcParams, NoParams before READY
    transportEncryptor, \* BaseMediaConnection._transportEncryptor, NoEncryptor before the ack
    udpReady,           \* MediaUdp._ready
    \* ---- packetizers
    packetizers,        \* every packetizer object created so far, by creation order
    audioPacketizer,    \* MediaUdp._audioPacketizer: index into packetizers, 0 = undefined
    videoPacketizer,    \* MediaUdp._videoPacketizer: index into packetizers, 0 = undefined
    sendTask,           \* per media kind: the sendFrame call in progress, or NoTask
    detached,           \* audio onFrameSent calls still awaiting their Sender Report
    \* ---- observation
    wire,               \* datagrams handed to the UDP socket, in order
    encLog,             \* encrypt calls in call order: [enc, counter]
    frameLog,           \* completed onFrameSent bookkeeping: one record per frame
    dropped             \* per media kind: sendAudioFrame / sendVideoFrame calls that
                        \* returned at the ready test

mediaVars == <<streamOptions, webRtcParams, transportEncryptor, udpReady>>
pkzVars == <<packetizers, audioPacketizer, videoPacketizer>>
sendVars == <<sendTask, detached, wire, encLog, frameLog, dropped>>
rtpVars == <<pkzVars, sendVars>>

VARIABLES
    \* ---- pacing streams (BaseMediaStream), one per media kind
    pts,            \* _pts: <<>> while undefined, <<ms>> once a frame was sent
    isPaused,       \* _isPaused
    syncStream,     \* TRUE while syncStream refers to the other stream
    writableEnded,  \* Writable.writableEnded
    destroyed,      \* Writable.destroyed
    pacePc,         \* where the _write in progress stands: "idle" | "pause" |
                    \* "sync" | "send" | "sleep"
    paceFrame,      \* number of frames written to the stream so far
    lastHand        \* observation: the latest _sendFrame call of each stream

paceVars == <<pts, isPaused, syncStream, writableEnded, destroyed, pacePc,
              paceFrame, lastHand>>

VARIABLES
    \* ---- voice control connection (BaseMediaConnection) and its UDP layer
    status,         \* status flags: hasSession, hasToken, started, resuming
    session,        \* session_id, token and server of setSession / setTokens
    sockets,        \* every WebSocket created so far: state, close code, messages
    ws,             \* this.ws: index into sockets, 0 = null
    interval,       \* heartbeat timer: "null" | "set"
    udpSocket,      \* MediaUdp._socket: number of dgram sockets created, 0 = null
    udpAddr,        \* MediaUdp._ip / _port: <<>> until discovered
    discovery,      \* IP discovery: requests sent, sockets awaiting the response
    selectWaiters,  \* the promises returned by setProtocols, in call order
    stopCalled,     \* observation: stop() was called on the connection
    reached,        \* observation: the connection has been Operational
    resumePending   \* observation: closed with 4015 while Operational, no RESUMED yet

connVars == <<status, session, sockets, ws, interval, udpSocket, udpAddr, discovery,
              selectWaiters, stopCalled, reached, resumePending>>

VARIABLES
    \* ---- stream controller (StreamController)
    isDestroyed,        \* StreamController.isDestroyed
    controllerPaused,   \* StreamController.isPaused
    streamRefs,         \* videoStream / audioStream: "set" | "undefined"
    currentCommand,     \* the encoder process: "undefined" | "running" | "killed"
    stopTask,           \* the stop() that passed the guard: "none" | "kill" |
                        \* "delay" | "done"
    seekTask,           \* the seek() that passed the guards: "none" | "kill" |
                        \* "delay" | "demux" | "done"
    streamConnection,   \* voiceConnection.streamConnection is set
    effects,            \* observation: how often each effect of the controller happened
    \* ---- streamer (Streamer, playStream)
    streamer            \* client.user, _voiceConnection, the gateway opcodes
                        \* broadcast and the calls made, in order

ctlVars == <<isDestroyed, controllerPaused, streamRefs, currentCommand, stopTask,
             seekTask, streamConnection, effects>>

vars == <<nalVars, mediaVars, rtpVars, paceVars, connVars, ctlVars, streamer>>

\* what the operations of one subsystem leave alone
outsideNal == <<mediaVars, rtpVars, paceVars, connVars, ctlVars, streamer>>
outsideRtp == <<nalVars, paceVars, connVars, ctlVars, streamer, dropped>>
outsidePace == <<nalVars, mediaVars, rtpVars, connVars, ctlVars, streamer>>
outsideConn == <<nalVars, sendVars, paceVars, ctlVars, streamer>>

----------------------------------------------------------------------------
(***************************************************************************)
(* 32-bit unsigned values are kept as two 16-bit halves <<hi, lo>>, so the *)
(* arithmetic modulo 2^32 of the code is computed exactly.                 *)
(***************************************************************************)
max_int16bit == 65536

Zero32 == <<0, 0>>
\* n as a 32-bit value, 0 <= n < 2^31
ToU32(n) == <<n \div max_int16bit, n % max_int16bit>>
\* (x + n) % max_int32bit, 0 <= n < 2^30
AddMod32(x, n) ==
    LET lo == x[2] + (n % max_int16bit)
        hi == x[1] + (n \div max_int16bit) + (lo \div max_int16bit)
    IN  <<hi % max_int16bit, lo % max_int16bit>>

----------------------------------------------------------------------------
(***************************************************************************)
(* Transport encryptor, packetizers and the UDP send path.                 *)
(***************************************************************************)
MaxWire == 4          \* encrypt calls, hence datagrams, of a run
MaxSetups == 1        \* updatePacketizer calls and SELECT_PROTOCOL_ACKs after the first

Mtu == 1200
AudioSrInterval == 250
AudioSsrc == 11
VideoSsrc == 12

NoParams == [set |-> FALSE]
NoEncryptor == [id |-> 0]
NoTask == [state |-> "none"]

\* d.secret_key of a SELECT_PROTOCOL_ACK; SessionKey is the key the voice
\* server gave first
SecretKeys == {"k1", "k2"}
SessionKey == "k1"

AudioFrametimes == {20}
VideoFrametimes == {40}
AudioFrameSizes == {200}
OpusFrameSizes == {200, 1200, 1300}
VideoFrameSizes == {1000, 1201}

\* AES256TransportEncryptor / Chacha20TransportEncryptor constructor
NewEncryptor(id, mode, secretKey) ==
    [id |-> id, mode |-> mode, secretKey |-> secretKey, nonce |-> Zero32]

\* the nonce buffer of one encrypt call: 12 bytes (AES-GCM) or 24 bytes
\* (XChaCha20), as 32-bit words; writeUInt32BE(nonce) fills the first word
NonceBuffer(mode, nonce) ==
    IF mode = "aead_aes256_gcm_rtpsize"
    THEN <<nonce, Zero32, Zero32>>
    ELSE <<nonce, Zero32, Zero32, Zero32, Zero32, Zero32>>

\* a counter that skips a value
NextNonce_Skip(nonce) == AddMod32(nonce, 2)

\* this._nonce = (this._nonce + 1) % max_int32bit
NextNonce(nonce) == AddMod32(nonce, 1)

\* nonceBuffer.subarray(0, 4)
NonceTail(nonceBuffer) == nonceBuffer[1]

\* what one encrypt call on enc is given: the encryptor object, its key,
\* its cipher and the counter written into the nonce buffer
Logged(enc) ==
    [enc |-> enc.id, counter |-> enc.nonce, secretKey |-> enc.secretKey,
     mode |-> enc.mode]

\* encrypt up to its await: the nonce buffer of this call and the encryptor
\* with its counter advanced
Encrypt(enc) ==
    [nonceBuffer |-> NonceBuffer(enc.mode, enc.nonce),
     enc |-> [enc EXCEPT !.nonce = NextNonce(enc.nonce)]]

\* a constructor that enables the header extension for every packetizer
NewPacketizer_ExtensionAlways(kind, fps) ==
    [kind |-> kind,
     ssrc |-> 0,
     payloadType |-> IF kind = "audio" THEN 120 ELSE 105,
     extensionEnabled |-> TRUE,
     sequence |-> 0,
     timestamp |-> Zero32,
     totalBytes |-> Zero32,
     totalPackets |-> 0,
     prevTotalPackets |-> 0,
     srInterval |-> IF kind = "audio" THEN AudioSrInterval ELSE 5 * fps * 3,
     pictureId |-> 0]

\* BaseMediaPacketizer constructor with the subclass constructor's settings
NewPacketizer(kind, fps) ==
    [kind |-> kind,
     ssrc |-> 0,
     payloadType |-> IF kind = "audio" THEN 120 ELSE 105,
     extensionEnabled |-> (kind = "video"),
     sequence |-> 0,
     timestamp |-> Zero32,
     totalBytes |-> Zero32,
     totalPackets |-> 0,
     prevTotalPackets |-> 0,
     srInterval |-> IF kind = "audio" THEN AudioSrInterval ELSE 5 * fps * 3,
     pictureId |-> 0]

\* set ssrc(value)
SetSsrc(p, value) ==
    [p EXCEPT !.ssrc = value, !.totalBytes = Zero32,
              !.totalPackets = 0, !.prevTotalPackets = 0]

\* partitionDataMTUSizedChunks, on the length of the data: the chunk lengths
RECURSIVE partitionDataMTUSizedChunks(_)
partitionDataMTUSizedChunks(len) ==
    IF len > 0
    THEN LET size == IF len < Mtu THEN len ELSE Mtu
         IN  <<size>> \o partitionDataMTUSizedChunks(len - size)
    ELSE <<>>

\* a sequence number that does not wrap
getNewSequence_NoWrap(sequence) == sequence + 1

getNewSequence(sequence) == (sequence + 1) % max_int16bit

incrementTimestamp(p, incrementBy) ==
    [p EXCEPT !.timestamp = AddMod32(p.timestamp, incrementBy)]

\* a packetizer that keeps its PictureID
incrementPictureId_Stuck(p) == p

incrementPictureId(p) ==
    [p EXCEPT !.pictureId = (p.pictureId + 1) % max_int16bit]

\* makeChunk: pictureIdBuf.writeUIntBE(this._pictureId, 0, 2), then
\* pictureIdBuf[0] |= 0b10000000
pictureIdBuf(id) ==
    LET hi == id \div 256
    IN  <<IF hi >= 128 THEN hi ELSE hi + 128, id % 256>>

\* a header with the M bit always set
makeRtpHeader_AlwaysMarked(p, isLastPacket) ==
    [x |-> p.extensionEnabled, m |-> TRUE, pt |-> p.payloadType,
     sequence |-> getNewSequence(p.sequence), timestamp |-> p.timestamp,
     ssrc |-> p.ssrc]

\* makeRtpHeader: the header, built on the packetizer after getNewSequence
makeRtpHeader(p, isLastPacket) ==
    [x |-> p.extensionEnabled, m |-> isLastPacket, pt |-> p.payloadType,
     sequence |-> getNewSequence(p.sequence), timestamp |-> p.timestamp,
     ssrc |-> p.ssrc]

\* createPacket up to its await: header, payload descriptor and the encrypt
\* call; the packet is what createPacket returns once the encryption is done
CreatePacket(pi, p, enc, call, chunkLen, isLastPacket, isFirstPacket) ==
    LET header == makeRtpHeader(p, isLastPacket)
        nonceBuffer == Encrypt(enc).nonceBuffer
        extLen == IF p.extensionEnabled THEN 4 ELSE 0
        plainLen == IF p.kind = "video" THEN 4 + 4 + chunkLen ELSE chunkLen
    IN  [kind |-> "rtp", header |-> header,
         start |-> (p.kind = "video" /\ isFirstPacket),
         pictureId |-> p.pictureId,
         pictureIdBuf |-> IF p.kind = "video" THEN pictureIdBuf(p.pictureId) ELSE <<>>,
         nonce |-> NonceTail(nonceBuffer),
         len |-> 12 + extLen + plainLen + 16 + 4,
         ext |-> extLen, chunk |-> chunkLen,
         pkz |-> pi, enc |-> enc.id, call |-> call]

\* data.map(chunk => createPacket(...)): the synchronous part of every
\* createPacket in chunk order. st = [p, enc, log, pkts]
RECURSIVE CreatePackets(_, _, _, _)
CreatePackets(pi, st, chunks, i) ==
    IF i > Len(chunks) THEN st
    ELSE LET pkt == CreatePacket(pi, st.p, st.enc, Len(st.log) + 1, chunks[i],
                                 i = Len(chunks), i = 1)
         IN  CreatePackets(pi,
                [p    |-> [st.p EXCEPT !.sequence = getNewSequence(st.p.sequence)],
                 enc  |-> Encrypt(st.enc).enc,
                 log  |-> Append(st.log, Logged(st.enc)),
                 pkts |-> Append(st.pkts, pkt)],
                chunks, i + 1)

\* the packets in the order their encryptions might complete
RECURSIVE PromiseAll_CompletionOrder(_)
PromiseAll_CompletionOrder(pkts) ==
    IF pkts = <<>> THEN <<>>
    ELSE Append(PromiseAll_CompletionOrder(Tail(pkts)), Head(pkts))

\* await Promise.all(encryptedPackets): the packets in the order of the
\* array, whatever the order in which the encryptions complete
PromiseAll(pkts) == [i \in 1..Len(pkts) |-> pkts[i]]

RECURSIVE SumLen(_)
SumLen(pkts) == IF pkts = <<>> THEN 0 ELSE Head(pkts).len + SumLen(Tail(pkts))

\* BaseMediaPacketizer.onFrameSent up to its await: the counters
CountFrame(p, packetsSent, bytesSent) ==
    [p EXCEPT !.totalPackets = p.totalPackets + packetsSent,
              !.totalBytes = AddMod32(p.totalBytes, bytesSent)]

\* the Sender Report condition of BaseMediaPacketizer.onFrameSent
SrDue(p) ==
    (p.totalPackets \div p.srInterval) - (p.prevTotalPackets \div p.srInterval) > 0

\* makeRtcpSenderReport up to its await
MakeRtcpSenderReport(pi, p, enc, call) ==
    [kind |-> "rtcp", ssrc |-> p.ssrc, timestamp |-> p.timestamp,
     totalPackets |-> p.totalPackets, totalBytes |-> p.totalBytes,
     nonce |-> NonceTail(Encrypt(enc).nonceBuffer),
     len |-> 8 + 20 + 16 + 4,
     pkz |-> pi, enc |-> enc.id, call |-> call]

\* the subclass part of onFrameSent, after super.onFrameSent returned
AfterFrameSent(p, frametime) ==
    IF p.kind = "audio"
    THEN incrementTimestamp(p, frametime * 48)
    ELSE incrementPictureId(incrementTimestamp(p, 90 * frametime))

\* the outcomes the socket can report for the datagrams of a frame
SendResults(pkts) ==
    {[i \in 1..Len(pkts) |-> IF i \in bad THEN "error" ELSE "sent"] :
        bad \in SUBSET (1..Len(pkts))}

AllSent(pkts) == [i \in 1..Len(pkts) |-> "sent"]

\* what the promise of sendFrame settles with once every packet is
\* encrypted: sendFrame calls this.mediaUdp.sendPacket(packet) and drops the
\* promise it returns, whose rejection no handler receives
sendFrameResult(sends) == "resolved"

FrameRecord(pi, p, sr, pkts, frametime, sends) ==
    [pkz |-> pi, enabled |-> streamOptions.rtcpSenderReportEnabled,
     totalPackets |-> p.totalPackets, sr |-> sr,
     pkts |-> pkts, frametime |-> frametime,
     sends |-> sends, result |-> sendFrameResult(sends)]

NoneDropped == {}

\* ---- histories the run starts from ------------------------------------
\* A packetizer after n single-packet frames of the given frametime, with
\* Sender Reports enabled or disabled throughout.
AgedPacketizer(kind, ssrc, fps, n, frametime, pktLen, counted) ==
    LET p == SetSsrc(NewPacketizer(kind, fps), ssrc)
        perFrame == IF kind = "audio" THEN frametime * 48 ELSE 90 * frametime
    IN  [p EXCEPT !.sequence = n % max_int16bit,
                  !.pictureId = IF kind = "video" THEN n % max_int16bit ELSE 0,
                  !.timestamp = ToU32(n * perFrame),
                  !.totalPackets = IF counted THEN n ELSE 0,
                  !.totalBytes = IF counted THEN ToU32(n * pktLen) ELSE Zero32,
                  !.prevTotalPackets = IF counted THEN n - (n % p.srInterval) ELSE 0]

DefaultFps == 30
Histories == {"fresh", "nearReport", "nearWrap"}
PictureHistories == {"midPicture", "nearPictureWrap"}

\* "fresh": nothing sent yet.  "nearReport": 249 audio and 449 video frames
\* sent, one packet before each Sender Report boundary.  "nearWrap": 65534
\* audio frames and 65535 * 65536 video frames sent with Sender Reports
\* disabled: the audio sequence and the nonce are two steps before their wrap.
\* "midPicture", "nearPictureWrap": 32767 and 65535 video frames sent and no
\* audio frame, Sender Reports disabled.
HistoryAudio(h, sr) ==
    CASE h = "fresh"      -> AgedPacketizer("audio", AudioSsrc, DefaultFps, 0, 20, 232, sr)
      [] h = "nearReport" -> AgedPacketizer("audio", AudioSsrc, DefaultFps, 249, 20, 232, sr)
      [] h = "nearWrap"   -> AgedPacketizer("audio", AudioSsrc, DefaultFps, 65534, 20, 232, FALSE)
      [] h \in PictureHistories -> AgedPacketizer("audio", AudioSsrc, DefaultFps, 0, 20, 232, sr)

HistoryVideo(h, sr) ==
    CASE h = "fresh"      -> AgedPacketizer("video", VideoSsrc, DefaultFps, 0, 40, 1044, sr)
      [] h = "nearReport" -> AgedPacketizer("video", VideoSsrc, DefaultFps, 449, 40, 1044, sr)
      [] h = "nearWrap"   -> [AgedPacketizer("video", VideoSsrc, DefaultFps, 0, 40, 1044, FALSE)
                                EXCEPT !.timestamp = <<61936, 0>>]
      [] h = "midPicture" ->
             AgedPacketizer("video", VideoSsrc, DefaultFps, 32767, 40, 1044, FALSE)
      [] h = "nearPictureWrap" ->
             AgedPacketizer("video", VideoSsrc, DefaultFps, 65535, 40, 1044, FALSE)

HistoryNonce(h) ==
    CASE h = "fresh"      -> Zero32
      [] h = "nearReport" -> ToU32(249 + 449)
      [] h = "nearWrap"   -> <<65535, 65534>>
      [] h = "midPicture" -> ToU32(32767)
      [] h = "nearPictureWrap" -> ToU32(65535)

DefaultStreamOptions ==
    [videoCodec |-> "VP8", fps |-> DefaultFps,
     rtcpSenderReportEnabled |-> TRUE, forceChacha20Encryption |-> FALSE]

\* a selection that takes AES-256-GCM whenever the server advertises it
SelectedMode_IgnoreForce(options, params) ==
    IF "aead_aes256_gcm_rtpsize" \in params.supportedEncryptionModes
    THEN "aead_aes256_gcm_rtpsize"
    ELSE "aead_xchacha20_poly1305_rtpsize"

\* the encryption mode setProtocols asks for and the server acknowledges
SelectedMode(options, params) ==
    IF "aead_aes256_gcm_rtpsize" \in params.supportedEncryptionModes
          /\ ~options.forceChacha20Encryption
    THEN "aead_aes256_gcm_rtpsize"
    ELSE "aead_xchacha20_poly1305_rtpsize"

\* a connected MediaUdp after one of the given histories
RtpInitFrom(options) ==
    \E c \in options :
        /\ streamOptions = [DefaultStreamOptions EXCEPT
                                !.rtcpSenderReportEnabled = c.sr,
                                !.forceChacha20Encryption = c.chacha]
        /\ webRtcParams = [set |-> TRUE, audioSsrc |-> AudioSsrc, videoSsrc |-> VideoSsrc,
                           supportedEncryptionModes |->
                               {"aead_aes256_gcm_rtpsize", "aead_xchacha20_poly1305_rtpsize"}]
        /\ transportEncryptor =
               [NewEncryptor(1, SelectedMode(streamOptions, webRtcParams), SessionKey)
                    EXCEPT !.nonce = HistoryNonce(c.h)]
        /\ udpReady = TRUE
        /\ packetizers = <<HistoryAudio(c.h, c.sr), HistoryVideo(c.h, c.sr)>>
        /\ audioPacketizer = 1
        /\ videoPacketizer = 2
        /\ sendTask = [k \in {"audio", "video"} |-> NoTask]
        /\ detached = <<>>
        /\ wire = <<>>
        /\ encLog = <<>>
        /\ frameLog = <<>>
        /\ dropped = NoneDropped

\* the stream options each history ran with
HistoryOptions ==
    { [h |-> "fresh", sr |-> TRUE, chacha |-> FALSE],
      [h |-> "fresh", sr |-> FALSE, chacha |-> TRUE],
      [h |-> "nearReport", sr |-> TRUE, chacha |-> FALSE],
      [h |-> "nearWrap", sr |-> FALSE, chacha |-> FALSE] }

\* the stream options of the runs that start near a PictureID boundary
PictureOptions ==
    { [h |-> "fresh", sr |-> TRUE, chacha |-> FALSE],
      [h |-> "nearReport", sr |-> TRUE, chacha |-> FALSE],
      [h |-> "midPicture", sr |-> FALSE, chacha |-> FALSE],
      [h |-> "nearPictureWrap", sr |-> FALSE, chacha |-> FALSE] }

RtpInit == RtpInitFrom(HistoryOptions)

\* a connection as constructed with the given stream options: no READY yet,
\* no UDP socket, no packetizer
RtpIdleWith(options) ==
    /\ streamOptions = options
    /\ webRtcParams = NoParams
    /\ transportEncryptor = NoEncryptor
    /\ udpReady = FALSE
    /\ packetizers = <<>>
    /\ audioPacketizer = 0
    /\ videoPacketizer = 0
    /\ sendTask = [k \in {"audio", "video"} |-> NoTask]
    /\ detached = <<>>
    /\ wire = <<>>
    /\ encLog = <<>>
    /\ frameLog = <<>>
    /\ dropped = NoneDropped

RtpIdle == RtpIdleWith(DefaultStreamOptions)

\* the stream options a connection may be constructed with
ForceOptions ==
    {[DefaultStreamOptions EXCEPT !.forceChacha20Encryption = force] : force \in BOOLEAN}

\* ---- operations ---------------------------------------------------------
PacketizerOf(kind) == IF kind = "audio" THEN audioPacketizer ELSE videoPacketizer

\* a sendAudioFrame / sendVideoFrame without the ready test
returnsAtOnce_Never(ready) == FALSE

\* if (!this.ready) return
returnsAtOnce(ready) == ~ready

\* MediaUdp.sendAudioFrame / sendVideoFrame -> sendFrame, up to the first
\* await: every header is built and every encrypt call is made.
SendFrameCall(kind, size, frametime) ==
    LET pi == PacketizerOf(kind)
        chunks == IF kind = "audio" THEN <<size>> ELSE partitionDataMTUSizedChunks(size)
        st == CreatePackets(pi,
                  [p |-> packetizers[pi], enc |-> transportEncryptor,
                   log |-> encLog, pkts |-> <<>>], chunks, 1)
    IN  /\ ~returnsAtOnce(udpReady)
        /\ sendTask[kind] = NoTask
        /\ pi # 0
        /\ packetizers[pi].ssrc # 0
        /\ transportEncryptor # NoEncryptor
        /\ Len(encLog) + Len(chunks) + 1 <= MaxWire
        /\ packetizers' = [packetizers EXCEPT ![pi] = st.p]
        /\ transportEncryptor' = st.enc
        /\ encLog' = st.log
        /\ sendTask' = [sendTask EXCEPT ![kind] =
               [state |-> "enc", pkz |-> pi, pkts |-> st.pkts, frametime |-> frametime]]
        /\ UNCHANGED <<streamOptions, webRtcParams, udpReady, audioPacketizer,
                       videoPacketizer, detached, wire, frameLog, outsideRtp>>

\* MediaUdp.sendAudioFrame / sendVideoFrame called while the UDP layer is
\* not ready
DroppedCall(kind) ==
    /\ returnsAtOnce(udpReady)
    /\ kind \notin dropped
    /\ dropped' = dropped \cup {kind}
    /\ UNCHANGED <<mediaVars, pkzVars, sendTask, detached, wire, encLog, frameLog,
                   nalVars, paceVars, connVars, ctlVars, streamer>>

DroppedAudio == DroppedCall("audio")
DroppedVideo == DroppedCall("video")

SendAudioFrame ==
    \E size \in AudioFrameSizes, ft \in AudioFrametimes : SendFrameCall("audio", size, ft)

\* an Opus frame of any size, also above the MTU
SendOpusFrame ==
    \E size \in OpusFrameSizes, ft \in AudioFrametimes : SendFrameCall("audio", size, ft)

SendVideoFrame ==
    \E size \in VideoFrameSizes, ft \in VideoFrametimes : SendFrameCall("video", size, ft)

\* The encryptions of a frame are done: its packets go to sendPacket in
\* order, then onFrameSent runs up to its await (or to its end when no
\* Sender Report is due).  The video packetizer awaits onFrameSent inside
\* sendFrame; the audio packetizer calls it without awaiting it.
FrameEncryptedWith(kind, sends) ==
    LET t == sendTask[kind]
        pi == t.pkz
        p0 == packetizers[pi]
        enabled == streamOptions.rtcpSenderReportEnabled
        p1 == IF enabled THEN CountFrame(p0, Len(t.pkts), SumLen(t.pkts)) ELSE p0
        due == enabled /\ SrDue(p1)
        report == MakeRtcpSenderReport(pi, p1, transportEncryptor, Len(encLog) + 1)
        pending == [pkz |-> pi, report |-> report, frametime |-> t.frametime]
    IN  /\ t.state = "enc"
        /\ wire' = wire \o PromiseAll(t.pkts)
        /\ frameLog' = Append(frameLog,
                               FrameRecord(pi, p1, due, t.pkts, t.frametime, sends))
        /\ IF due
           THEN /\ packetizers' = [packetizers EXCEPT ![pi] = p1]
                /\ transportEncryptor' = Encrypt(transportEncryptor).enc
                /\ encLog' = Append(encLog, Logged(transportEncryptor))
                /\ IF kind = "audio"
                   THEN /\ detached' = Append(detached, pending)
                        /\ sendTask' = [sendTask EXCEPT ![kind] = NoTask]
                   ELSE /\ detached' = detached
                        /\ sendTask' = [sendTask EXCEPT ![kind] =
                               [state |-> "sr", pkz |-> pi, report |-> report,
                                frametime |-> t.frametime]]
           ELSE /\ packetizers' = [packetizers EXCEPT ![pi] = AfterFrameSent(p1, t.frametime)]
                /\ sendTask' = [sendTask EXCEPT ![kind] = NoTask]
                /\ UNCHANGED <<transportEncryptor, encLog, detached>>
        /\ UNCHANGED <<streamOptions, webRtcParams, udpReady, audioPacketizer,
                       videoPacketizer, outsideRtp>>

\* every datagram of the frame is sent
FrameEncrypted(kind) ==
    /\ sendTask[kind].state = "enc"
    /\ FrameEncryptedWith(kind, AllSent(sendTask[kind].pkts))

\* the socket reports an error for any of the datagrams of the frame
FrameHanded(kind) ==
    /\ sendTask[kind].state = "enc"
    /\ \E sends \in SendResults(sendTask[kind].pkts) : FrameEncryptedWith(kind, sends)

AudioEncrypted == FrameEncrypted("audio")
VideoEncrypted == FrameEncrypted("video")
AudioHanded == FrameHanded("audio")
VideoHanded == FrameHanded("video")

\* the rest of onFrameSent once the Sender Report is encrypted
ReportSent(pi, report, frametime) ==
    /\ wire' = Append(wire, report)
    /\ packetizers' = [packetizers EXCEPT ![pi] =
           AfterFrameSent([packetizers[pi] EXCEPT
                              !.prevTotalPackets = packetizers[pi].totalPackets], frametime)]

VideoReportSent ==
    /\ sendTask["video"].state = "sr"
    /\ ReportSent(sendTask["video"].pkz, sendTask["video"].report, sendTask["video"].frametime)
    /\ sendTask' = [sendTask EXCEPT !["video"] = NoTask]
    /\ UNCHANGED <<mediaVars, audioPacketizer, videoPacketizer, detached, encLog,
                   frameLog, outsideRtp>>

RemoveAt(seq, i) == SubSeq(seq, 1, i - 1) \o SubSeq(seq, i + 1, Len(seq))

AudioReportSent ==
    \E i \in 1..Len(detached) :
        /\ ReportSent(detached[i].pkz, detached[i].report, detached[i].frametime)
        /\ detached' = RemoveAt(detached, i)
        /\ UNCHANGED <<mediaVars, audioPacketizer, videoPacketizer, sendTask, encLog,
                       frameLog, outsideRtp>>

\* MediaUdp.updatePacketizer: new packetizer objects for the SSRCs of READY
updatePacketizer(pkzs, options, params) ==
    pkzs \o << SetSsrc(NewPacketizer("audio", options.fps), params.audioSsrc),
               SetSsrc(NewPacketizer("video", options.fps), params.videoSsrc) >>

UpdatePacketizer ==
    /\ webRtcParams.set
    /\ streamOptions.videoCodec = "VP8"
    /\ Len(packetizers) < 2 * (1 + MaxSetups)
    /\ packetizers' = updatePacketizer(packetizers, streamOptions, webRtcParams)
    /\ audioPacketizer' = Len(packetizers) + 1
    /\ videoPacketizer' = Len(packetizers) + 2
    /\ UNCHANGED <<mediaVars, sendTask, detached, wire, encLog, frameLog, outsideRtp>>

\* the application assigns another SSRC to the packetizer in use for a media
\* kind (udp.audioPacketizer.ssrc = value)
AssignSsrc(kind) ==
    \E value \in {AudioSsrc, VideoSsrc} :
        LET pi == IF kind = "audio" THEN audioPacketizer ELSE videoPacketizer
        IN  /\ pi # 0
            /\ sendTask[kind] = NoTask
            /\ packetizers[pi].ssrc # value
            /\ packetizers' = [packetizers EXCEPT ![pi] = SetSsrc(@, value)]
            /\ UNCHANGED <<mediaVars, audioPacketizer, videoPacketizer, sendTask, detached,
                           wire, encLog, frameLog, outsideRtp>>

AssignAudioSsrc == AssignSsrc("audio")
AssignVideoSsrc == AssignSsrc("video")

\* handleProtocolAck: a new encryptor object for the mode of the ack
handleProtocolAck(encryptor, mode, secretKey) ==
    NewEncryptor(encryptor.id + 1, mode, secretKey)

\* a SELECT_PROTOCOL_ACK with any secret key
HandleProtocolAck ==
    \E secretKey \in SecretKeys :
    /\ transportEncryptor.id < 1 + MaxSetups
    /\ transportEncryptor' = handleProtocolAck(transportEncryptor,
                                 SelectedMode(streamOptions, webRtcParams), secretKey)
    /\ UNCHANGED <<streamOptions, webRtcParams, udpReady, rtpVars, outsideRtp>>

RtpNext ==
    \/ SendAudioFrame \/ AudioEncrypted \/ AudioReportSent
    \/ SendVideoFrame \/ VideoEncrypted \/ VideoReportSent
    \/ UpdatePacketizer \/ HandleProtocolAck

\* the audio send path with SSRCs assigned by the connection and by the
\* application
SsrcNext ==
    \/ SendAudioFrame \/ AudioEncrypted \/ AudioReportSent
    \/ UpdatePacketizer \/ AssignAudioSsrc \/ AssignVideoSsrc

\* the audio send path with Opus frames of any size, next to video frames
OpusNext ==
    \/ SendOpusFrame \/ AudioEncrypted \/ AudioReportSent
    \/ SendVideoFrame \/ VideoEncrypted \/ VideoReportSent

\* the send path on a socket whose send() can fail
SendNext ==
    \/ SendAudioFrame \/ AudioHanded \/ AudioReportSent
    \/ SendVideoFrame \/ VideoHanded \/ VideoReportSent

----------------------------------------------------------------------------
(***************************************************************************)
(* Properties of the send path.                                            *)
(***************************************************************************)
RtpOnWire == {i \in 1..Len(wire) : wire[i].kind = "rtp"}

\* i and j are consecutive among the wire's RTP packets that satisfy Same(i, j)
Consecutive(i, j, Same(_, _)) ==
    /\ i \in RtpOnWire /\ j \in RtpOnWire /\ i < j
    /\ Same(i, j)
    /\ \A k \in RtpOnWire : (i < k /\ k < j) => ~Same(i, k)

SameSsrc(i, j) == wire[i].header.ssrc = wire[j].header.ssrc
SamePacketizer(i, j) == wire[i].pkz = wire[j].pkz

Succ32(x) ==
    IF x[2] = 65535
    THEN <<IF x[1] = 65535 THEN 0 ELSE x[1] + 1, 0>>
    ELSE <<x[1], x[2] + 1>>

\* C9: consecutive encrypt calls on one encryptor use nonce counters that
\* differ by exactly 1 modulo 2^32, in call order, whatever mix of RTP packets
\* and Sender Reports they encrypt; the 4 bytes appended to a datagram are the
\* counter of its own encrypt call.
C9_NonceCounter ==
    /\ \A i \in 1..(Len(encLog) - 1) :
          encLog[i].enc = encLog[i + 1].enc
              => encLog[i + 1].counter = Succ32(encLog[i].counter)
    /\ \A i \in 1..Len(wire) :
          /\ wire[i].call \in 1..Len(encLog)
          /\ encLog[wire[i].call].enc = wire[i].enc
          /\ encLog[wire[i].call].counter = wire[i].nonce

\* the counter wraps between two calls, with a later chunk of a multi-chunk
\* video frame and an audio packet on the wire
C9_Witness ==
    /\ \E i \in 1..(Len(encLog) - 1) :
          /\ encLog[i].enc = encLog[i + 1].enc
          /\ encLog[i].counter = <<65535, 65535>> /\ encLog[i + 1].counter = Zero32
    /\ \E i \in RtpOnWire : wire[i].header.pt = 105 /\ ~wire[i].start
    /\ \E i \in RtpOnWire : wire[i].header.pt = 120

\* the SSRC of packetizer i is assigned in this step
SsrcAssigned(i) ==
    i > Len(packetizers) \/ packetizers'[i].ssrc # packetizers[i].ssrc

\* C40: when the SSRC of a packetizer is assigned or reassigned, its sequence
\* counter, timestamp counter, totalPackets, totalBytes and the
\* packets-at-last-SR counter are reset.
C40_ResetOnSsrc ==
    [][\A i \in 1..Len(packetizers') :
          SsrcAssigned(i) =>
              /\ packetizers'[i].sequence = 0
              /\ packetizers'[i].timestamp = Zero32
              /\ packetizers'[i].totalPackets = 0
              /\ packetizers'[i].totalBytes = Zero32
              /\ packetizers'[i].prevTotalPackets = 0]_vars

\* a packetizer that sent a frame under one SSRC sends the next one under
\* another SSRC with the sequence number that follows
C40_SequenceContinues ==
    \E a, b \in RtpOnWire :
        /\ a < b /\ wire[a].pkz = wire[b].pkz
        /\ wire[a].header.ssrc # wire[b].header.ssrc
        /\ wire[b].header.sequence = (wire[a].header.sequence + 1) % max_int16bit

\* encrypt calls i and j use one key, one cipher and one nonce
SameNonceAndKey(i, j) ==
    /\ encLog[i].secretKey = encLog[j].secretKey
    /\ NonceBuffer(encLog[i].mode, encLog[i].counter)
           = NonceBuffer(encLog[j].mode, encLog[j].counter)

\* C36: no two packets are encrypted with the same nonce under the same key;
\* a SELECT_PROTOCOL_ACK handled again with an unchanged key does not restart
\* the nonce counter from 0.
C36_NonceNeverReused ==
    \A i, j \in 1..Len(encLog) : i # j => ~SameNonceAndKey(i, j)

\* two packets on the wire, encrypted by different encryptor objects, carry
\* the same nonce under the same key
C36_NonceRestarted ==
    \E a, b \in 1..Len(wire) :
        /\ a < b
        /\ encLog[wire[a].call].enc < encLog[wire[b].call].enc
        /\ SameNonceAndKey(wire[a].call, wire[b].call)
        /\ encLog[wire[b].call].counter = Zero32

\* totalPackets at the previous Sender Report of the packetizer of frame i (or 0)
PrevReportTotal(i) ==
    LET js == {j \in 1..(i - 1) : frameLog[j].pkz = frameLog[i].pkz /\ frameLog[j].sr}
    IN  IF js = {} THEN 0
        ELSE frameLog[CHOOSE j \in js : \A k \in js : k <= j].totalPackets

ReportsOf(pi) ==
    Cardinality({i \in 1..Len(wire) : wire[i].kind = "rtcp" /\ wire[i].pkz = pi})
    + Cardinality({i \in 1..Len(detached) : detached[i].pkz = pi})
    + Cardinality({k \in {"audio", "video"} :
                      sendTask[k].state = "sr" /\ sendTask[k].pkz = pi})

\* C10: a Sender Report follows a frame exactly when Sender Reports are
\* enabled and floor(totalPackets / srInterval) has increased since the
\* previous report of that packetizer (or since 0); each such frame gets one
\* report and no other report is made.
C10_SenderReportCadence ==
    /\ \A i \in 1..Len(frameLog) :
          LET r == frameLog[i]
              srEvery == packetizers[r.pkz].srInterval
          IN  r.sr <=> /\ r.enabled
                       /\ (r.totalPackets \div srEvery) > (PrevReportTotal(i) \div srEvery)
    /\ \A pi \in 1..Len(packetizers) :
          ReportsOf(pi) = Cardinality({i \in 1..Len(frameLog) :
                                          frameLog[i].pkz = pi /\ frameLog[i].sr})

\* the frames of packetizer pi in the order they were handed to the socket
FramesOfPacketizer(pi) == {i \in 1..Len(frameLog) : frameLog[i].pkz = pi}

VideoFramesSent == {i \in 1..Len(frameLog) : packetizers[frameLog[i].pkz].kind = "video"}

\* C11: of the k >= 1 RTP packets VideoPacketizerVP8.sendFrame makes of a
\* frame, the k-th has the marker bit set and packets 1..k-1 have it clear,
\* in the frame as built and in the datagrams handed to the socket.
C11_MarkerOnLastPacket ==
    /\ \A f \in VideoFramesSent :
          LET pkts == frameLog[f].pkts
          IN  /\ Len(pkts) >= 1
              /\ \A i \in 1..Len(pkts) : pkts[i].header.m <=> (i = Len(pkts))
    /\ \A i \in RtpOnWire :
          (wire[i].header.pt = 105 /\ ~wire[i].header.m)
              => /\ i < Len(wire)
                 /\ wire[i + 1].kind = "rtp" /\ wire[i + 1].header.pt = 105
                 /\ ~wire[i + 1].start

\* a frame of one packet and a frame of two packets were sent
C11_Witness ==
    /\ \E f \in VideoFramesSent : Len(frameLog[f].pkts) = 1
    /\ \E f \in VideoFramesSent :
          /\ Len(frameLog[f].pkts) = 2
          /\ ~frameLog[f].pkts[1].header.m /\ frameLog[f].pkts[2].header.m

\* the RTP clock ticks of a frame: 48 per ms for Opus, 90 per ms for video
ClockTicks(pi, frametime) ==
    IF packetizers[pi].kind = "audio" THEN frametime * 48 ELSE frametime * 90

\* C12: every frame advances the RTP timestamp of its packetizer exactly once
\* by frametime * 48 (Opus) or frametime * 90 (video) modulo 2^32, with or
\* without Sender Reports: all packets of a frame carry one timestamp, and
\* the next frame of the packetizer carries that timestamp plus the advance.
C12_TimestampPerFrame ==
    /\ \A f \in 1..Len(frameLog) :
          \A i \in 1..Len(frameLog[f].pkts) :
              frameLog[f].pkts[i].header.timestamp = frameLog[f].pkts[1].header.timestamp
    /\ \A f, g \in 1..Len(frameLog) :
          (/\ f < g
           /\ frameLog[f].pkz = frameLog[g].pkz
           /\ \A h \in FramesOfPacketizer(frameLog[f].pkz) : ~(f < h /\ h < g))
              => frameLog[g].pkts[1].header.timestamp =
                     AddMod32(frameLog[f].pkts[1].header.timestamp,
                              ClockTicks(frameLog[f].pkz, frameLog[f].frametime))

\* C13: within one SSRC the RTP packets reach sendPacket in the order their
\* headers were built: in the order of their createPacket calls, with
\* sequence numbers ascending by one (modulo 2^16) within a packetizer, the
\* packets of a multi-chunk frame included; the packets of a frame are
\* contiguous among the packets of their SSRC.
C13_HandOverInBuildOrder ==
    /\ \A i, j \in RtpOnWire :
          (i < j /\ SameSsrc(i, j)) => wire[i].call < wire[j].call
    /\ \A i, j \in 1..Len(wire) :
          Consecutive(i, j, SamePacketizer) =>
              wire[j].header.sequence = (wire[i].header.sequence + 1) % 65536
    /\ \A i, j \in 1..Len(wire) :
          (Consecutive(i, j, SameSsrc) /\ ~wire[i].header.m)
              => /\ wire[j].pkz = wire[i].pkz
                 /\ wire[j].header.timestamp = wire[i].header.timestamp
                 /\ ~wire[j].start

\* the two packets of a video frame were handed over, first packet first,
\* in a run with an earlier or a later frame
C13_Witness ==
    \E i, j \in 1..Len(wire) :
        /\ Consecutive(i, j, SameSsrc)
        /\ wire[i].start /\ ~wire[i].header.m /\ wire[j].header.m
        /\ \E k \in RtpOnWire : k < i \/ k > j

AudioFramesSent == {i \in 1..Len(frameLog) : packetizers[frameLog[i].pkz].kind = "audio"}

\* C24: every Opus frame is sent as one RTP packet that holds the whole
\* frame, whatever its size, with M = 1, X = 0 and no extension bytes
\* between the 12-byte header and the encrypted frame.
C24_OnePacketPerOpusFrame ==
    \A f \in AudioFramesSent :
        /\ Len(frameLog[f].pkts) = 1
        /\ LET pkt == frameLog[f].pkts[1]
           IN  /\ pkt.header.m /\ ~pkt.header.x
               /\ pkt.ext = 0
               /\ pkt.len = 12 + pkt.chunk + 16 + 4

\* an Opus frame larger than the MTU was sent
C24_Witness ==
    \E f \in AudioFramesSent : frameLog[f].pkts[1].chunk > Mtu /\ frameLog[f].pkts[1].header.m

\* the frames of a packetizer in the order of their sendFrame calls
NextFrameOf(f, g) ==
    /\ f < g /\ frameLog[f].pkz = frameLog[g].pkz
    /\ \A h \in FramesOfPacketizer(frameLog[f].pkz) : ~(f < h /\ h < g)

\* C27: of two consecutive audio frames of a packetizer the second carries
\* the timestamp of the first plus frametime * 48 modulo 2^32 and never the
\* timestamp of the first, also when the Sender Report that the first made
\* due was still being encrypted as the second was packetized.
C27_AudioTimestampAdvances ==
    \A f, g \in AudioFramesSent :
        NextFrameOf(f, g) =>
            LET first == frameLog[f].pkts[1].header.timestamp
                second == frameLog[g].pkts[1].header.timestamp
            IN  /\ second # first
                /\ second = AddMod32(first, frameLog[f].frametime * 48)

\* C23: the packets of one video frame carry the same PictureID; the next
\* frame of the packetizer carries that PictureID plus 1 modulo 2^16, so 0
\* follows 65535; the first frame of a packetizer created by updatePacketizer
\* carries 0; and the PictureID is written as its two big-endian bytes with
\* the high bit of the first byte set.
C23_PictureIdPerFrame ==
    /\ \A f \in VideoFramesSent :
          \A i \in 1..Len(frameLog[f].pkts) :
              LET pkt == frameLog[f].pkts[i]
              IN  /\ pkt.pictureId = frameLog[f].pkts[1].pictureId
                  /\ pkt.pictureId \in 0..65535
                  /\ Len(pkt.pictureIdBuf) = 2
                  /\ pkt.pictureIdBuf[2] = pkt.pictureId % 256
                  /\ pkt.pictureIdBuf[1] \in 128..255
                  /\ pkt.pictureIdBuf[1] % 128 = (pkt.pictureId \div 256) % 128
    /\ \A f, g \in VideoFramesSent :
          NextFrameOf(f, g) =>
              frameLog[g].pkts[1].pictureId = (frameLog[f].pkts[1].pictureId + 1) % 65536
    /\ \A g \in VideoFramesSent :
          (frameLog[g].pkz > 2 /\ \A f \in VideoFramesSent : ~NextFrameOf(f, g))
              => frameLog[g].pkts[1].pictureId = 0

\* a two-packet frame with PictureID 65535 followed by a frame with 0
C23_Witness ==
    \E f, g \in VideoFramesSent :
        /\ NextFrameOf(f, g)
        /\ Len(frameLog[f].pkts) = 2
        /\ frameLog[f].pkts[1].pictureId = 65535 /\ frameLog[g].pkts[1].pictureId = 0

\* C21: when the socket reports an error for a datagram of a frame, the
\* promise of the sendFrame call that handed the datagram over is rejected
\* with it, so that the error reaches the pacing stream.
C21_SendErrorReported ==
    \A f \in 1..Len(frameLog) :
        (\E i \in 1..Len(frameLog[f].sends) : frameLog[f].sends[i] = "error")
            => frameLog[f].result = "rejected"

----------------------------------------------------------------------------
(***************************************************************************)
(* Pacing streams: _write, _waitForOtherStream, pause and resume.          *)
(***************************************************************************)
MaxFrames == 3       \* frames written to each stream

syncTolerance == 5

Streams == {"video", "audio"}
Peer(s) == IF s = "video" THEN "audio" ELSE "video"

Undefined == <<>>

\* frames of 40 ms (video) and 20 ms (audio), the first one at PTS 0
Frametime(s) == IF s = "video" THEN 40 ELSE 20
FramePts(s, k) == (k - 1) * Frametime(s)

NoHand ==
    [made |-> FALSE, framePts |-> 0, pts |-> Undefined, peer |-> FALSE,
     peerEnded |-> FALSE, peerPts |-> Undefined, isPaused |-> FALSE, waited |-> FALSE]

PaceInit ==
    /\ pts = [s \in Streams |-> Undefined]
    /\ isPaused = [s \in Streams |-> FALSE]
    /\ syncStream = [s \in Streams |-> TRUE]
    /\ writableEnded = [s \in Streams |-> FALSE]
    /\ destroyed = [s \in Streams |-> FALSE]
    /\ pacePc = [s \in Streams |-> "idle"]
    /\ paceFrame = [s \in Streams |-> 0]
    /\ lastHand = [s \in Streams |-> NoHand]

\* a stream that never waits for its peer
waitForOtherStream_Never(s) == FALSE

\* a wait loop that also waits for a peer at the same PTS
waitForOtherStream_NotBehind(s) ==
    /\ syncStream[s]
    /\ ~writableEnded[Peer(s)]
    /\ pts[Peer(s)] # Undefined
    /\ pts[s] # Undefined
    /\ pts[s][1] - pts[Peer(s)][1] >= 0

\* the loop condition of _waitForOtherStream
waitForOtherStream(s) ==
    /\ syncStream[s]
    /\ ~writableEnded[Peer(s)]
    /\ pts[Peer(s)] # Undefined
    /\ pts[s] # Undefined
    /\ pts[s][1] - pts[Peer(s)][1] > syncTolerance

\* the call of _sendFrame for frame k of stream s
SendFrame(s, k) ==
    /\ lastHand' = [lastHand EXCEPT ![s] =
           [made |-> TRUE, framePts |-> FramePts(s, k), pts |-> pts[s],
            peer |-> syncStream[s], peerEnded |-> writableEnded[Peer(s)],
            peerPts |-> pts[Peer(s)], isPaused |-> isPaused[s],
            waited |-> pacePc[s] = "sync"]]
    /\ pacePc' = [pacePc EXCEPT ![s] = "send"]

\* _write past its pause loop: _waitForOtherStream, then _sendFrame
AfterPause(s, k) ==
    IF waitForOtherStream(s)
    THEN /\ pacePc' = [pacePc EXCEPT ![s] = "sync"]
         /\ lastHand' = lastHand
    ELSE SendFrame(s, k)

\* _write is called with the next frame
Write(s) ==
    /\ pacePc[s] = "idle"
    /\ ~writableEnded[s] /\ ~destroyed[s]
    /\ paceFrame[s] < MaxFrames
    /\ paceFrame' = [paceFrame EXCEPT ![s] = @ + 1]
    /\ IF isPaused[s]
       THEN /\ pacePc' = [pacePc EXCEPT ![s] = "pause"]
            /\ lastHand' = lastHand
       ELSE AfterPause(s, paceFrame[s] + 1)
    /\ UNCHANGED <<pts, isPaused, syncStream, writableEnded, destroyed, outsidePace>>

\* the 50 ms timer of the pause loop fires and the stream is no longer paused
PauseTimer(s) ==
    /\ pacePc[s] = "pause"
    /\ ~isPaused[s]
    /\ AfterPause(s, paceFrame[s])
    /\ UNCHANGED <<pts, isPaused, syncStream, writableEnded, destroyed, paceFrame,
                   outsidePace>>

\* the 1 ms timer of _waitForOtherStream fires and the loop condition is false
SyncTimer(s) ==
    /\ pacePc[s] = "sync"
    /\ ~waitForOtherStream(s)
    /\ SendFrame(s, paceFrame[s])
    /\ UNCHANGED <<pts, isPaused, syncStream, writableEnded, destroyed, paceFrame,
                   outsidePace>>

\* _sendFrame resolves: this._pts = framePts, then the sleep starts
FrameSent(s) ==
    /\ pacePc[s] = "send"
    /\ pts' = [pts EXCEPT ![s] = <<FramePts(s, paceFrame[s])>>]
    /\ pacePc' = [pacePc EXCEPT ![s] = "sleep"]
    /\ UNCHANGED <<isPaused, syncStream, writableEnded, destroyed, paceFrame, lastHand,
                   outsidePace>>

\* the sleep is over: callback(null)
SleepDone(s) ==
    /\ pacePc[s] = "sleep"
    /\ pacePc' = [pacePc EXCEPT ![s] = "idle"]
    /\ UNCHANGED <<pts, isPaused, syncStream, writableEnded, destroyed, paceFrame,
                   lastHand, outsidePace>>

pause(s) ==
    /\ ~isPaused[s]
    /\ isPaused' = [isPaused EXCEPT ![s] = TRUE]
    /\ UNCHANGED <<pts, syncStream, writableEnded, destroyed, pacePc, paceFrame,
                   lastHand, outsidePace>>

resume(s) ==
    /\ isPaused[s]
    /\ isPaused' = [isPaused EXCEPT ![s] = FALSE]
    /\ UNCHANGED <<pts, syncStream, writableEnded, destroyed, pacePc, paceFrame,
                   lastHand, outsidePace>>

\* Writable.end(): the source of the stream is exhausted
End(s) ==
    /\ ~writableEnded[s] /\ ~destroyed[s]
    /\ paceFrame[s] > 0
    /\ writableEnded' = [writableEnded EXCEPT ![s] = TRUE]
    /\ UNCHANGED <<pts, isPaused, syncStream, destroyed, pacePc, paceFrame, lastHand,
                   outsidePace>>

\* _destroy: the stream forgets its peer
Destroy(s) ==
    /\ ~destroyed[s]
    /\ paceFrame[s] > 0
    /\ destroyed' = [destroyed EXCEPT ![s] = TRUE]
    /\ syncStream' = [syncStream EXCEPT ![s] = FALSE]
    /\ UNCHANGED <<pts, isPaused, writableEnded, pacePc, paceFrame, lastHand,
                   outsidePace>>

WriteFrame == \E s \in Streams : Write(s)
PauseLoopExit == \E s \in Streams : PauseTimer(s)
SyncLoopExit == \E s \in Streams : SyncTimer(s)
SendFrameDone == \E s \in Streams : FrameSent(s)
WriteDone == \E s \in Streams : SleepDone(s)
PauseStream == \E s \in Streams : pause(s)
ResumeStream == \E s \in Streams : resume(s)
EndStream == \E s \in Streams : End(s)
DestroyStream == \E s \in Streams : Destroy(s)

PaceNext ==
    \/ WriteFrame \/ PauseLoopExit \/ SyncLoopExit \/ SendFrameDone \/ WriteDone
    \/ PauseStream \/ ResumeStream \/ EndStream \/ DestroyStream

\* two streams that are never paused
SyncNext ==
    \/ WriteFrame \/ SyncLoopExit \/ SendFrameDone \/ WriteDone
    \/ EndStream \/ DestroyStream

\* the peer of a hand-over existed, had not ended and had a defined PTS
PeerCounts(h) == h.made /\ h.peer /\ ~h.peerEnded /\ h.peerPts # Undefined

\* C3 (as claimed): a frame handed to the packetizer is never more than
\* syncTolerance ms ahead of the peer's last-emitted PTS, whenever the peer
\* exists, has not ended and has a defined PTS.
C3_FrameWithinTolerance ==
    \A s \in Streams :
        PeerCounts(lastHand[s]) =>
            lastHand[s].framePts - lastHand[s].peerPts[1] <= syncTolerance

\* C3 (amended): when a frame is handed to the packetizer, the PTS of the
\* frame the stream emitted before it is not more than syncTolerance ms ahead
\* of the peer's last-emitted PTS, whenever the peer exists, has not ended and
\* both PTS are defined.
C3_LastEmittedWithinTolerance ==
    \A s \in Streams :
        (PeerCounts(lastHand[s]) /\ lastHand[s].pts # Undefined) =>
            lastHand[s].pts[1] - lastHand[s].peerPts[1] <= syncTolerance

\* a frame handed over after the stream waited for its peer, ahead of the
\* peer by more than the tolerance
C3_Witness ==
    \E s \in Streams :
        /\ PeerCounts(lastHand[s]) /\ lastHand[s].pts # Undefined
        /\ lastHand[s].waited
        /\ lastHand[s].framePts - lastHand[s].peerPts[1] > syncTolerance

\* C8: between pause() and resume() the stream makes no _sendFrame call,
\* whatever the _write in progress was doing when pause() was called.
C8_NoFrameWhilePaused ==
    \A s \in Streams : lastHand[s].made => ~lastHand[s].isPaused

\* C19: once a stream is destroyed its sync-peer reference is cleared and
\* the loop its _write is suspended in has a false condition, so that the
\* wait ends at the next timer: the pause loop (while _isPaused) and the
\* sync wait (while the stream is ahead of its peer).
C19_DestroyUnblocks ==
    \A s \in Streams :
        destroyed[s] =>
            /\ ~syncStream[s]
            /\ pacePc[s] = "pause" => ~isPaused[s]
            /\ pacePc[s] = "sync" => ~waitForOtherStream(s)

\* the PTS of stream s cannot change any more: it has ended or is destroyed
\* and no _write is on its way to _sendFrame
Terminated(s) ==
    /\ writableEnded[s] \/ destroyed[s]
    /\ pacePc[s] \in {"idle", "sleep"}

\* C20: when the peer of a stream has ended or is destroyed, the sync wait of
\* the stream does not keep it waiting: the condition of the wait loop is
\* false, so the frame is released at the next timer.
C20_PeerEndReleases ==
    \A s \in Streams :
        (Terminated(Peer(s)) /\ pacePc[s] = "sync") => ~waitForOtherStream(s)

\* stream s is in the sync wait and its loop condition holds
Waiting(s) == pacePc[s] = "sync" /\ waitForOtherStream(s)

\* the premises of a release do not hold: a stream is paused, or the peer of
\* s releases no further frame (destroyed, or its source has no frame left)
NotKeptReleasing(s) ==
    \/ \E t \in Streams : isPaused[t]
    \/ destroyed[Peer(s)]
    \/ paceFrame[Peer(s)] = MaxFrames /\ pacePc[Peer(s)] \in {"idle", "sleep"}

\* C38: two paired streams are never both waiting on the other in the sync
\* wait, and while neither is paused and the lagging peer keeps releasing
\* frames, a stream in the sync wait is eventually released.
C38_SyncWaitEnds ==
    /\ [](~(\A s \in Streams : Waiting(s)))
    /\ \A s \in Streams :
          (pacePc[s] = "sync") ~> (pacePc[s] # "sync" \/ NotKeptReleasing(s))

\* the video stream hands over its third frame after a sync wait, its peer
\* alive, neither stream paused, while the audio stream is in its own _write
C38_Witness ==
    /\ lastHand["video"].waited /\ lastHand["video"].framePts = FramePts("video", 3)
    /\ pacePc["video"] = "send"
    /\ PeerCounts(lastHand["video"])
    /\ \A t \in Streams : ~isPaused[t] /\ ~destroyed[t] /\ ~writableEnded[t]
    /\ pacePc["audio"] # "idle"

\* C37: a destroyed pacing stream hands no further frame to its packetizer,
\* wherever its _write was suspended when destroy() was called.
C37_NoFrameAfterDestroy ==
    [][\A s \in Streams : destroyed[s] => lastHand'[s] = lastHand[s]]_vars

\* a stream that was destroyed during its sync wait has called _sendFrame
C37_HandedAfterDestroy ==
    \E s \in Streams :
        /\ destroyed[s] /\ pacePc[s] = "send"
        /\ lastHand[s].waited /\ ~lastHand[s].peer

----------------------------------------------------------------------------
(***************************************************************************)
(* Voice control connection: WebSocket life cycle, READY, IP discovery,    *)
(* protocol selection, resume.  The server follows the protocol: READY     *)
(* answers IDENTIFY, SELECT_PROTOCOL_ACK answers SELECT_PROTOCOL, RESUMED  *)
(* answers RESUME, each after the HELLO that the server sends first.  In   *)
(* ConnNext the gateway delivers the session and the token once; in        *)
(* StartNext, the life cycle of the WebSocket without the media handshake, *)
(* it delivers them again at any time.  BeatNext is that life cycle with   *)
(* the heartbeat timer running, SelectNext the media handshake on the      *)
(* first WebSocket with every choice of forceChacha20Encryption.           *)
(***************************************************************************)
MaxSockets == 2      \* WebSockets created by one connection
MaxSetCalls == 3     \* calls of setSession and setTokens together
MaxBeats == 1        \* HEARTBEAT messages one WebSocket takes
MaxSelects == 3      \* calls of setProtocols on one connection

SessionIds == {"s1"}
Tokens == {"t1"}
ServerCloseCodes == {1006, 4000, 4015}
EncryptionModeSets ==
    { {"aead_aes256_gcm_rtpsize", "aead_xchacha20_poly1305_rtpsize"},
      {"aead_xchacha20_poly1305_rtpsize"} }

NewSocket ==
    [state |-> "connecting", opened |-> FALSE, code |-> 0, sent |-> <<>>,
     served |-> {}, acks |-> 0, openedWith |-> <<>>,
     reachedAtClose |-> FALSE, stoppedAtClose |-> FALSE]

ConnInit ==
    /\ status = [hasSession |-> FALSE, hasToken |-> FALSE, started |-> FALSE,
                 resuming |-> FALSE]
    /\ session = [session_id |-> "null", token |-> "null", server |-> "null", calls |-> 0]
    /\ sockets = <<>>
    /\ ws = 0
    /\ interval = "null"
    /\ udpSocket = 0
    /\ udpAddr = <<>>
    /\ discovery = [sent |-> 0, pending |-> {}, promise |-> <<>>, first |-> <<>>]
    /\ selectWaiters = <<>>
    /\ stopCalled = FALSE
    /\ reached = FALSE
    /\ resumePending = FALSE

\* sendOpcode: this.ws?.send(...); a socket that is not open takes nothing
sendOpcode(socks, w, op, d) ==
    IF w # 0 /\ socks[w].state = "open"
    THEN [socks EXCEPT ![w].sent = Append(@, [op |-> op, d |-> d])]
    ELSE socks

OpsSent(sock) == {sock.sent[m].op : m \in 1..Len(sock.sent)}
CountSent(sock, op) == Cardinality({m \in 1..Len(sock.sent) : sock.sent[m].op = op})

identify(socks, w) ==
    sendOpcode(socks, w, "IDENTIFY",
               [server_id |-> "guild", user_id |-> "bot",
                session_id |-> session.session_id, token |-> session.token,
                video |-> TRUE])

resumeSession(socks, w) ==
    sendOpcode(socks, w, "RESUME",
               [server_id |-> "guild", session_id |-> session.session_id,
                token |-> session.token])

setProtocols(socks, w, addr, options) ==
    sendOpcode(socks, w, "SELECT_PROTOCOL",
               [address |-> addr, mode |-> SelectedMode(options, webRtcParams)])

\* a setProtocols whose promise is settled as soon as the message is sent
NewWaiter_Settled(before, after, w, options) ==
    [sock |-> w,
     msg |-> IF after = before THEN 0 ELSE Len(after[w].sent),
     forced |-> options.forceChacha20Encryption,
     state |-> "resolved", by |-> <<>>, key |-> transportEncryptor]

\* the promise of setProtocols: pending, with a once("select_protocol_ack")
\* listener; msg is the place of its SELECT_PROTOCOL among the messages of
\* socket w, 0 when the socket took nothing; forced is
\* streamOptions.forceChacha20Encryption as the call read it
NewWaiter(before, after, w, options) ==
    [sock |-> w,
     msg |-> IF after = before THEN 0 ELSE Len(after[w].sent),
     forced |-> options.forceChacha20Encryption,
     state |-> "pending", by |-> <<>>, key |-> NoEncryptor]

\* emit("select_protocol_ack"): every listener registered so far resolves its
\* promise; i and m name the socket and the SELECT_PROTOCOL the ack answers
emitAck(waiters, i, m, encryptor) ==
    [k \in 1..Len(waiters) |->
        IF waiters[k].state = "pending"
        THEN [waiters[k] EXCEPT !.state = "resolved", !.by = <<i, m>>, !.key = encryptor]
        ELSE waiters[k]]

\* a start() that does not look at status.started
start_Always(st, socks, w) ==
    IF st.hasSession /\ st.hasToken
    THEN [status |-> [st EXCEPT !.started = TRUE],
          sockets |-> Append(socks, NewSocket),
          ws |-> Len(socks) + 1]
    ELSE [status |-> st, sockets |-> socks, ws |-> w]

\* start(): a new WebSocket once session and token are known, unless started
start(st, socks, w) ==
    IF st.hasSession /\ st.hasToken /\ ~st.started
    THEN [status |-> [st EXCEPT !.started = TRUE],
          sockets |-> Append(socks, NewSocket),
          ws |-> Len(socks) + 1]
    ELSE [status |-> st, sockets |-> socks, ws |-> w]

\* a close handler that resumes only after 4015
canResume_Only4015(code) == code = 4015

\* a close handler that resumes after every close
canResume_Always(code) == TRUE

\* const canResume = code === 4015 || code < 4000
canResume(code) == code = 4015 \/ code < 4000

\* a close handler that leaves the UDP layer ready when it is going to resume
readyAfterClose_KeptForResume(code) == udpReady /\ canResume(code)

\* this.udp.ready = false in the close handler
readyAfterClose(code) == FALSE

Operational ==
    /\ ws # 0 /\ sockets[ws].state = "open"
    /\ udpReady /\ transportEncryptor # NoEncryptor

\* a socket that still delivers the server's messages: opened, not yet closed
Alive(i) == sockets[i].opened /\ sockets[i].state \in {"open", "closing"}

\* setSession on a connection whether stopped or not
setSessionCall(id) ==
    LET r == start([status EXCEPT !.hasSession = TRUE], sockets, ws)
    IN  /\ session.calls < MaxSetCalls
        /\ Len(r.sockets) <= MaxSockets
        /\ session' = [session EXCEPT !.session_id = id, !.calls = @ + 1]
        /\ status' = r.status /\ sockets' = r.sockets /\ ws' = r.ws
        /\ UNCHANGED <<interval, udpSocket, udpAddr, discovery, selectWaiters, stopCalled, reached,
                       resumePending, mediaVars, pkzVars, outsideConn>>

\* setSession as the gateway listeners of the Streamer call it: on a
\* connection that was not stopped
setSession(id) == ~stopCalled /\ setSessionCall(id)

setTokens(server, token) ==
    LET r == start([status EXCEPT !.hasToken = TRUE], sockets, ws)
    IN  /\ ~stopCalled
        /\ session.calls < MaxSetCalls
        /\ Len(r.sockets) <= MaxSockets
        /\ session' = [session EXCEPT !.token = token, !.server = server, !.calls = @ + 1]
        /\ status' = r.status /\ sockets' = r.sockets /\ ws' = r.ws
        /\ UNCHANGED <<interval, udpSocket, udpAddr, discovery, selectWaiters, stopCalled, reached,
                       resumePending, mediaVars, pkzVars, outsideConn>>

\* ws.on("open"): RESUME when resuming, IDENTIFY otherwise
WsOpen(i) ==
    LET opened == [sockets EXCEPT ![i].state = "open", ![i].opened = TRUE,
                                  ![i].openedWith = <<session>>]
    IN  /\ sockets[i].state = "connecting"
        /\ IF status.resuming
           THEN /\ status' = [status EXCEPT !.resuming = FALSE]
                /\ sockets' = resumeSession(opened, ws)
           ELSE /\ status' = status
                /\ sockets' = identify(opened, ws)
        /\ UNCHANGED <<session, ws, interval, udpSocket, udpAddr, discovery, selectWaiters, stopCalled,
                       reached, resumePending, mediaVars, pkzVars, outsideConn>>

\* the close codes a socket can end with
CloseCodes(sock) ==
    CASE sock.state = "connecting" -> {1006}
      [] sock.state = "open"       -> ServerCloseCodes
      [] sock.state = "closing"    -> IF sock.opened THEN {1005} ELSE {1006}
      [] OTHER                     -> {}

\* ws.on("close"), for a connection that creates at most limit WebSockets
WsCloseWithin(i, code, limit) ==
    LET wasStarted == status.started
        closed == [sockets EXCEPT ![i].state = "closed", ![i].code = code,
                                  ![i].reachedAtClose = reached,
                                  ![i].stoppedAtClose = stopCalled]
        r == IF canResume(code) /\ wasStarted
             THEN start([status EXCEPT !.started = FALSE, !.resuming = TRUE], closed, ws)
             ELSE [status |-> [status EXCEPT !.started = FALSE],
                   sockets |-> closed, ws |-> ws]
    IN  /\ code \in CloseCodes(sockets[i])
        /\ Len(r.sockets) <= limit
        /\ status' = r.status /\ sockets' = r.sockets /\ ws' = r.ws
        /\ udpReady' = readyAfterClose(code)
        /\ resumePending' =
               CASE i = ws /\ code = 4015 /\ Operational /\ discovery.pending = {} -> TRUE
                 [] i = ws /\ ~(canResume(code) /\ wasStarted) -> FALSE
                 [] OTHER -> resumePending
        /\ UNCHANGED <<session, interval, udpSocket, udpAddr, discovery, selectWaiters, stopCalled,
                       reached, streamOptions, webRtcParams, transportEncryptor,
                       pkzVars, outsideConn>>

WsClose(i, code) == WsCloseWithin(i, code, MaxSockets)

\* HELLO: setupHeartbeat
ServerHello(i) ==
    /\ Alive(i) /\ "HELLO" \notin sockets[i].served
    /\ sockets' = [sockets EXCEPT ![i].served = @ \cup {"HELLO"}]
    /\ interval' = "set"
    /\ UNCHANGED <<status, session, ws, udpSocket, udpAddr, discovery, selectWaiters, stopCalled,
                   reached, resumePending, mediaVars, pkzVars, outsideConn>>

\* the callback of setInterval in setupHeartbeat: it runs for as long as the
\* timer is set and sends on whatever this.ws is at that moment
HeartbeatTick ==
    /\ interval = "set"
    /\ ws # 0 /\ CountSent(sockets[ws], "HEARTBEAT") < MaxBeats
    /\ sockets' = sendOpcode(sockets, ws, "HEARTBEAT", [nonce |-> 42069])
    /\ UNCHANGED <<status, session, ws, interval, udpSocket, udpAddr, discovery,
                   selectWaiters, stopCalled, reached, resumePending, mediaVars,
                   pkzVars, outsideConn>>

\* ---- IP discovery --------------------------------------------------------
\* an address is the sequence of the numbers between the dots of its text
Ipv4Addresses == {<<10, 0, 0, 1>>}
MalformedAddresses == {<<10, 0, 0>>, <<10, 0, 0, 256>>}

\* the datagrams the UDP socket may receive first: type 2 (response) or 1
Datagrams ==
    {[type |-> t, ip |-> a, port |-> 5000] :
        t \in {2, 1}, a \in Ipv4Addresses \cup MalformedAddresses}

NoDatagram == [type |-> 0]
LocalAddr == <<<<10, 0, 0, 1>>, 5000>>

\* node:net isIPv4 on such an address
isIPv4(ip) == Len(ip) = 4 /\ \A i \in 1..Len(ip) : ip[i] \in 0..255

\* parseLocalPacket: the address and port of the datagram, or an exception
parseLocalPacket(message) ==
    IF ~isIPv4(message.ip)
    THEN [threw |-> TRUE]
    ELSE [threw |-> FALSE, ip |-> message.ip, port |-> message.port]

\* a promise on which the last resolve() or reject() call wins
Settle_LastWins(state, outcome) == outcome

\* resolve() / reject() on a promise: only the first call settles it
Settle(state, outcome) == IF state = "pending" THEN outcome ELSE state

\* READY: handleReady, sendVoice (createUdp sends the IP discovery request),
\* setVideoStatus(false)
ServerReady(i, modes) ==
    LET params == [set |-> TRUE, audioSsrc |-> AudioSsrc, videoSsrc |-> VideoSsrc,
                   supportedEncryptionModes |-> modes]
        served == [sockets EXCEPT ![i].served = @ \cup {"READY"}]
    IN  /\ Alive(i) /\ "HELLO" \in sockets[i].served
        /\ "IDENTIFY" \in OpsSent(sockets[i]) /\ "READY" \notin sockets[i].served
        /\ webRtcParams' = params
        /\ packetizers' = updatePacketizer(packetizers, streamOptions, params)
        /\ audioPacketizer' = Len(packetizers) + 1
        /\ videoPacketizer' = Len(packetizers) + 2
        /\ udpSocket' = udpSocket + 1
        /\ discovery' = [sent |-> discovery.sent + 1,
                         pending |-> discovery.pending \cup {udpSocket + 1},
                         promise |-> Append(discovery.promise, "pending"),
                         first |-> Append(discovery.first, NoDatagram)]
        /\ sockets' = sendOpcode(served, ws, "VIDEO", [video_ssrc |-> 0])
        /\ UNCHANGED <<status, session, ws, interval, udpAddr, selectWaiters, stopCalled, reached,
                       resumePending, streamOptions, transportEncryptor, udpReady,
                       outsideConn>>

\* the first datagram of UDP socket u (socket.once('message')): the type
\* test, parseLocalPacket, then resolve(); when the promise of createUdp
\* resolves, the ready callback calls setProtocols
DiscoveryResponse(u, d) ==
    LET typed == IF d.type # 2
                 THEN Settle(discovery.promise[u], "rejected")
                 ELSE discovery.promise[u]
        parsed == parseLocalPacket(d)
        caught == IF parsed.threw THEN Settle(typed, "rejected") ELSE typed
        settled == Settle(caught, "resolved")
        addr == IF parsed.threw THEN udpAddr ELSE <<parsed.ip, parsed.port>>
    IN  /\ u \in discovery.pending
        /\ discovery' = [discovery EXCEPT !.pending = @ \ {u},
                                          !.promise[u] = settled,
                                          !.first[u] = d]
        /\ udpAddr' = addr
        /\ udpReady' = (udpReady \/ ~parsed.threw)
        /\ sockets' = IF settled = "resolved"
                      THEN setProtocols(sockets, ws, addr, streamOptions)
                      ELSE sockets
        /\ selectWaiters' = IF settled = "resolved"
                            THEN Append(selectWaiters,
                                        NewWaiter(sockets, sockets', ws, streamOptions))
                            ELSE selectWaiters
        /\ reached' = (reached \/ (udpReady' /\ ws # 0 /\ sockets[ws].state = "open"
                                    /\ transportEncryptor # NoEncryptor))
    /\ UNCHANGED <<status, session, ws, interval, udpSocket, stopCalled, resumePending,
                   streamOptions, webRtcParams, transportEncryptor, pkzVars,
                   outsideConn>>

\* playStream: the application, which has the connection's MediaUdp once
\* joinVoice / createStream resolved, that is after the first
\* SELECT_PROTOCOL_ACK, replaces the stream options and calls setProtocols
SetProtocols(force) ==
    /\ webRtcParams.set
    /\ udpAddr # <<>> /\ transportEncryptor # NoEncryptor
    /\ ws # 0 /\ sockets[ws].state = "open"
    /\ Len(selectWaiters) < MaxSelects
    /\ streamOptions' = [streamOptions EXCEPT !.forceChacha20Encryption = force]
    /\ sockets' = setProtocols(sockets, ws, udpAddr, streamOptions')
    /\ selectWaiters' = Append(selectWaiters,
                               NewWaiter(sockets, sockets', ws, streamOptions'))
    /\ UNCHANGED <<status, session, ws, interval, udpSocket, udpAddr, discovery,
                   stopCalled, reached, resumePending, webRtcParams, transportEncryptor,
                   udpReady, pkzVars, outsideConn>>

\* SELECT_PROTOCOL_ACK: handleProtocolAck
ServerProtocolAck(i) ==
    LET asked == {m \in 1..Len(sockets[i].sent) : sockets[i].sent[m].op = "SELECT_PROTOCOL"}
        nth == CHOOSE m \in asked :
                   Cardinality({k \in asked : k <= m}) = sockets[i].acks + 1
    IN  /\ Alive(i) /\ "HELLO" \in sockets[i].served
        /\ sockets[i].acks < Cardinality(asked)
        /\ sockets' = [sockets EXCEPT ![i].acks = @ + 1]
        /\ transportEncryptor' =
               handleProtocolAck(transportEncryptor, sockets[i].sent[nth].d.mode, SessionKey)
        /\ selectWaiters' = emitAck(selectWaiters, i, nth, transportEncryptor')
        /\ reached' = (reached \/ (i = ws /\ sockets[i].state = "open" /\ udpReady))
        /\ UNCHANGED <<status, session, ws, interval, udpSocket, udpAddr, discovery,
                       stopCalled, resumePending, streamOptions, webRtcParams, udpReady,
                       pkzVars, outsideConn>>

\* RESUMED
ServerResumed(i) ==
    /\ Alive(i) /\ "HELLO" \in sockets[i].served
    /\ "RESUME" \in OpsSent(sockets[i]) /\ "RESUMED" \notin sockets[i].served
    /\ sockets' = [sockets EXCEPT ![i].served = @ \cup {"RESUMED"}]
    /\ status' = [status EXCEPT !.started = TRUE]
    /\ udpReady' = TRUE
    /\ resumePending' = FALSE
    /\ reached' = (reached \/ (i = ws /\ sockets[i].state = "open"
                                /\ transportEncryptor # NoEncryptor))
    /\ UNCHANGED <<session, ws, interval, udpSocket, udpAddr, discovery, selectWaiters, stopCalled,
                   streamOptions, webRtcParams, transportEncryptor, pkzVars,
                   outsideConn>>

\* BaseMediaConnection.stop, as an update of the connection's variables
stop(st, socks, w) ==
    [status |-> [st EXCEPT !.started = FALSE],
     sockets |-> IF w # 0 /\ socks[w].state \in {"connecting", "open"}
                 THEN [socks EXCEPT ![w].state = "closing"]
                 ELSE socks]

ConnStop ==
    LET r == stop(status, sockets, ws)
    IN  /\ ~stopCalled
        /\ status.hasSession \/ status.hasToken
        /\ interval' = "null"
        /\ status' = r.status /\ sockets' = r.sockets
        /\ udpReady' = FALSE
        /\ stopCalled' = TRUE
        /\ UNCHANGED <<session, ws, udpSocket, udpAddr, discovery, selectWaiters, reached,
                       resumePending, streamOptions, webRtcParams, transportEncryptor,
                       pkzVars, outsideConn>>

\* the gateway delivers the session and the token once
SetSession == \E id \in SessionIds : ~status.hasSession /\ setSession(id)
SetTokens == \E token \in Tokens : ~status.hasToken /\ setTokens("server", token)
\* the gateway delivers them again at any time
SetSessionAgain == \E id \in SessionIds : setSession(id)
SetTokensAgain == \E token \in Tokens : setTokens("server", token)
SocketOpen == \E i \in 1..Len(sockets) : WsOpen(i)
SocketClose == \E i \in 1..Len(sockets) : \E code \in CloseCodes(sockets[i]) : WsClose(i, code)
Hello == \E i \in 1..Len(sockets) : ServerHello(i)
Ready == \E i \in 1..Len(sockets), modes \in EncryptionModeSets : ServerReady(i, modes)
Discovered == \E u \in discovery.pending, d \in Datagrams : DiscoveryResponse(u, d)
ProtocolAck == \E i \in 1..Len(sockets) : ServerProtocolAck(i)
Resumed == \E i \in 1..Len(sockets) : ServerResumed(i)
\* playStream with new options, and with the options of the connection
PlayStream == \E force \in BOOLEAN : SetProtocols(force)
PlayStreamSame == SetProtocols(streamOptions.forceChacha20Encryption)

ConnNext ==
    \/ SetSession \/ SetTokens \/ SocketOpen \/ SocketClose \/ Hello \/ Ready
    \/ Discovered \/ PlayStreamSame \/ ProtocolAck \/ Resumed \/ ConnStop

\* the media handshake on the first WebSocket, with every choice of
\* forceChacha20Encryption at construction and at playStream
SelectNext ==
    \/ SetSession \/ SetTokens \/ SocketOpen \/ Hello \/ Ready \/ Discovered
    \/ PlayStream \/ ProtocolAck \/ ConnStop

\* the life cycle of the WebSocket with the heartbeat timer running
BeatNext ==
    \/ SetSession \/ SetTokens \/ SocketOpen \/ SocketClose \/ Hello \/ Resumed
    \/ ConnStop \/ HeartbeatTick

\* the close of a socket after stop(), which may open one WebSocket more
\* than the connection was allowed before
StoppedClose ==
    \E i \in 1..Len(sockets) : \E code \in CloseCodes(sockets[i]) :
        stopCalled /\ WsCloseWithin(i, code, MaxSockets + 1)

\* the life cycle of the WebSocket up to and after stop()
StopNext ==
    \/ SetSession \/ SetTokens \/ SocketOpen \/ SocketClose \/ Hello \/ Resumed
    \/ ConnStop \/ StoppedClose

\* setSession called on the connection object after its stop()
SetSessionAnew == \E id \in SessionIds : stopCalled /\ setSessionCall(id)

\* the life cycle of the WebSocket of a connection that is used again after
\* stop()
RestartNext == StopNext \/ SetSessionAnew

\* frames sent on a connection that was Operational while its WebSocket
\* closes, resumes and is stopped
GateNext ==
    \/ SendAudioFrame \/ AudioEncrypted \/ SendVideoFrame \/ VideoEncrypted
    \/ DroppedAudio \/ DroppedVideo
    \/ SocketClose \/ SocketOpen \/ Hello \/ Resumed \/ ConnStop

\* a sendAudioFrame or sendVideoFrame call is made in this step
SendCallStep ==
    \E k \in {"audio", "video"} :
        \/ k \in dropped' \ dropped
        \/ sendTask[k] = NoTask /\ sendTask'[k] # NoTask

\* C35: a sendAudioFrame or sendVideoFrame call made while the UDP layer is
\* not ready sends no packet and leaves the packetizers (sequence,
\* timestamp, PictureID, packet and byte counters) and the encryptor (nonce
\* counter) as they were; no sendFrame is started.
C35_NotReadyNoEffect ==
    [][(~udpReady /\ SendCallStep)
          => UNCHANGED <<wire, packetizers, transportEncryptor, encLog, sendTask,
                         detached, frameLog>>]_vars

\* after a frame of each kind was sent, the WebSocket closed with a
\* resumable code and a call of each kind was made before RESUMED
C35_Witness ==
    /\ ~udpReady /\ status.resuming
    /\ dropped = {"audio", "video"}
    /\ \E f, g \in 1..Len(frameLog) :
          /\ packetizers[frameLog[f].pkz].kind = "audio"
          /\ packetizers[frameLog[g].pkz].kind = "video"
    /\ packetizers[audioPacketizer].sequence = 1
    /\ packetizers[videoPacketizer].sequence >= 1

StartNext ==
    \/ SetSessionAgain \/ SetTokensAgain \/ SocketOpen \/ SocketClose \/ Hello
    \/ Resumed \/ ConnStop

\* socket i was closed with a resumable code after the connection had been
\* Operational and before any stop()
ResumableClose(i) ==
    /\ sockets[i].state = "closed"
    /\ sockets[i].reachedAtClose /\ ~sockets[i].stoppedAtClose
    /\ (sockets[i].code = 4015 \/ sockets[i].code < 4000)

\* the first message on socket j is RESUME {server_id, session_id, token} and
\* no IDENTIFY was sent on it
ResumedOn(j) ==
    /\ sockets[j].sent # <<>>
    /\ Head(sockets[j].sent) =
          [op |-> "RESUME",
           d |-> [server_id |-> "guild",
                  session_id |-> sockets[j].openedWith[1].session_id,
                  token |-> sockets[j].openedWith[1].token]]
    /\ "IDENTIFY" \notin OpsSent(sockets[j])

\* C4: when the WebSocket of a connection that has been Operational closes
\* with code 4015 or a code below 4000, and stop() was not called, a new
\* WebSocket exists, and once that one has opened RESUME {server_id,
\* session_id, token} has been sent on it and IDENTIFY has not.
C4_ResumeAfterResumableClose ==
    \A i \in 1..Len(sockets) :
        ResumableClose(i) =>
            /\ i < Len(sockets)
            /\ sockets[i + 1].opened => ResumedOn(i + 1)

\* a resumable close from Operational whose successor socket has opened
C4_Witness ==
    \E i \in 1..(Len(sockets) - 1) :
        /\ ResumableClose(i) /\ "SELECT_PROTOCOL" \in OpsSent(sockets[i])
        /\ sockets[i + 1].opened /\ ResumedOn(i + 1)

\* socket i goes from not closed to closed with a terminal code in this step
TerminalCloseStep(i) ==
    /\ sockets[i].state # "closed" /\ sockets'[i].state = "closed"
    /\ sockets'[i].code >= 4000 /\ sockets'[i].code # 4015

\* the last socket was closed with a terminal code
TerminalLast ==
    /\ Len(sockets) > 0
    /\ sockets[Len(sockets)].state = "closed"
    /\ sockets[Len(sockets)].code >= 4000 /\ sockets[Len(sockets)].code # 4015

\* C5: a close with a code >= 4000 other than 4015 is terminal: the step
\* opens no WebSocket and sends nothing, leaves status.started false and the
\* UDP layer not ready; afterwards the connection is not started and not
\* resuming, and no WebSocket is opened and nothing is sent unless
\* setSession or setTokens is called anew.
C5_TerminalClose ==
    /\ [][\A i \in 1..Len(sockets) :
             TerminalCloseStep(i) =>
                 /\ Len(sockets') = Len(sockets)
                 /\ \A j \in 1..Len(sockets) : sockets'[j].sent = sockets[j].sent
                 /\ ~status'.started /\ ~status'.resuming
                 /\ ~udpReady']_vars
    /\ [](TerminalLast => ~status.started /\ ~status.resuming)
    /\ [][(TerminalLast /\ session'.calls = session.calls)
             => /\ Len(sockets') = Len(sockets)
                /\ \A j \in 1..Len(sockets) : sockets'[j].sent = sockets[j].sent
                /\ ~status'.started /\ ~status'.resuming]_vars

\* an Operational connection whose socket was closed with a terminal code
C5_Witness ==
    \E i \in 1..Len(sockets) :
        /\ sockets[i].state = "closed" /\ sockets[i].reachedAtClose
        /\ sockets[i].code >= 4000 /\ sockets[i].code # 4015
        /\ transportEncryptor # NoEncryptor /\ udpAddr # <<>>

\* RESUMED is handled in this step
ResumedStep ==
    \E i \in 1..Len(sockets) :
        "RESUMED" \notin sockets[i].served /\ "RESUMED" \in sockets'[i].served

\* C6: after a close with code 4015 from Operational the UDP layer is not
\* ready and no IP discovery request is sent until RESUMED is received; the
\* step that handles RESUMED makes the UDP layer ready and leaves the UDP
\* socket, the discovered ip and port, the packetizers and the encryptor as
\* they were, and sends no IP discovery request.
C6_ResumeKeepsUdp ==
    /\ [](resumePending => ~udpReady)
    /\ [][resumePending => discovery'.sent = discovery.sent]_vars
    /\ [][ResumedStep =>
             /\ udpReady'
             /\ UNCHANGED <<udpSocket, udpAddr, discovery, pkzVars, transportEncryptor>>]_vars

\* RESUMED was handled after a 4015 close from Operational: ready again, one
\* UDP socket, one discovery request
C6_Witness ==
    /\ \E i \in 1..(Len(sockets) - 1) :
          /\ sockets[i].state = "closed" /\ sockets[i].code = 4015
          /\ sockets[i].reachedAtClose
          /\ "RESUMED" \in sockets[i + 1].served
    /\ ~resumePending /\ udpReady
    /\ udpSocket = 1 /\ discovery.sent = 1

\* setSession or setTokens is called in this step
SetCallStep == session'.calls # session.calls

\* C15: a WebSocket exists only once both setSession and setTokens have been
\* called, the call that completes the pair (whichever it is) opens the first
\* one, and a call of either while the connection is started opens none.
C15_StartOnceBothKnown ==
    /\ [](Len(sockets) > 0 => status.hasSession /\ status.hasToken)
    /\ [][(SetCallStep /\ ~(status.hasSession /\ status.hasToken))
             => Len(sockets') = IF status'.hasSession /\ status'.hasToken THEN 1 ELSE 0]_vars
    /\ [][(SetCallStep /\ status.started)
             => Len(sockets') = Len(sockets) /\ ws' = ws /\ status'.started]_vars

\* a third call was made while the connection was started on its first socket
C15_Witness ==
    /\ session.calls = 3 /\ Len(sockets) = 1
    /\ sockets[1].state = "open" /\ status.started /\ ~stopCalled

\* the UDP sockets whose first datagram has arrived
Answered == {u \in 1..Len(discovery.first) : discovery.first[u] # NoDatagram}

\* C14: when the first datagram a UDP socket receives has a type other than
\* 2 or carries an address that is not an IPv4 literal, the promise of that
\* createUdp call is rejected, and a rejected promise never becomes resolved.
C14_DiscoveryRejects ==
    /\ [](\A u \in Answered :
             (discovery.first[u].type # 2 \/ ~isIPv4(discovery.first[u].ip))
                 => discovery.promise[u] = "rejected")
    /\ [][\A u \in 1..Len(discovery.promise) :
             discovery.promise[u] = "rejected" => discovery'.promise[u] = "rejected"]_vars

\* a datagram of type 1 with a well-formed address was the first one received
C14_Witness ==
    \E u \in Answered :
        /\ discovery.first[u].type = 1 /\ isIPv4(discovery.first[u].ip)
        /\ discovery.promise[u] = "rejected"

\* the promise of joinVoice / createStream: resolved by the first ready
\* callback whose setProtocols() resolved, rejected by nothing once the
\* connection object exists
joinPromise ==
    IF selectWaiters # <<>> /\ selectWaiters[1].state = "resolved"
    THEN "resolved" ELSE "pending"

\* C26: in the step in which the promise of createUdp is rejected (the IP
\* discovery failed), the session ends: the connection is no longer started
\* and the promise of joinVoice / createStream is settled.
C26_DiscoveryFailureEndsSession ==
    [][\A u \in 1..Len(discovery.promise) :
          (discovery.promise[u] = "pending" /\ discovery'.promise[u] = "rejected")
          => ~status'.started /\ joinPromise' # "pending"]_vars

\* the SELECT_PROTOCOL messages sent so far, as <<socket, place>>
SelectsSent ==
    UNION {{<<i, m>> : m \in {n \in 1..Len(sockets[i].sent) :
                                  sockets[i].sent[n].op = "SELECT_PROTOCOL"}} :
           i \in 1..Len(sockets)}

\* a SELECT_PROTOCOL_ACK is handled in this step
AckStep == \E i \in 1..Len(sockets) : sockets'[i].acks = sockets[i].acks + 1

C31_ResumeOnlyAfterIdentify ==
    \A j \in 1..Len(sockets) :
        "RESUME" \in OpsSent(sockets[j])
            => \E i \in 1..(j - 1) : "IDENTIFY" \in OpsSent(sockets[i])

\* the opcodes op sent so far, over all sockets
SentOverall(socks, op) ==
    UNION {{<<i, m>> : m \in {n \in 1..Len(socks[i].sent) : socks[i].sent[n].op = op}} :
           i \in 1..Len(socks)}

\* C32: after stop(), and without a later setSession or setTokens, no step
\* opens a WebSocket or sends IDENTIFY or RESUME: the close that stop()
\* causes does not reconnect.
C32_NoReconnectAfterStop ==
    [][(stopCalled /\ session'.calls = session.calls)
          => /\ Len(sockets') = Len(sockets)
             /\ SentOverall(sockets', "IDENTIFY") = SentOverall(sockets, "IDENTIFY")
             /\ SentOverall(sockets', "RESUME") = SentOverall(sockets, "RESUME")]_vars

\* the WebSockets that are connecting or open
LiveSockets == {i \in 1..Len(sockets) : sockets[i].state \in {"connecting", "open"}}

\* C33: at most one WebSocket of the connection is connecting or open at any
\* time, also when the close event of an old socket arrives after a new
\* start.
C33_OneLiveSocket == Cardinality(LiveSockets) <= 1

\* a discovery reply of type 2 with an IPv4 address
ValidReply(d) == d.type = 2 /\ isIPv4(d.ip)

\* the UDP sockets whose first datagram was such a reply
ValidlyAnswered == {u \in 1..Len(discovery.first) : ValidReply(discovery.first[u])}

\* such a reply is received in this step
ValidReplyStep ==
    \E u \in 1..Len(discovery.first) :
        discovery.first[u] = NoDatagram /\ ValidReply(discovery'.first[u])

\* a WebSocket closes or stop() is called in this step
ClosedOrStoppedStep ==
    \/ \E i \in 1..Len(sockets) : sockets[i].state # "closed" /\ sockets'[i].state = "closed"
    \/ ~stopCalled /\ stopCalled'

\* C34: the UDP layer is ready only if a discovery reply of type 2 with an
\* IPv4 address was received (ip and port are set); it becomes ready only in
\* the step that receives such a reply or handles RESUMED, and a close of
\* the WebSocket or stop() leaves it not ready.
C34_ReadyOnlyAfterDiscovery ==
    /\ [](udpReady => ValidlyAnswered # {} /\ udpAddr # <<>>)
    /\ [][(~udpReady /\ udpReady') => ValidReplyStep \/ ResumedStep]_vars
    /\ [][ClosedOrStoppedStep => ~udpReady']_vars

\* READY was handled / the promise of a createUdp resolved
ReadyReceived == \E i \in 1..Len(sockets) : "READY" \in sockets[i].served
DiscoverySucceeded == \E u \in 1..Len(discovery.promise) : discovery.promise[u] = "resolved"

\* C39: the promise of joinVoice / createStream resolves only in a step that
\* handles a SELECT_PROTOCOL_ACK, taken after IP discovery succeeded, which
\* came after READY; the MediaUdp it resolves with is ready and its
\* connection has a transport encryptor and packetizers.
C39_JoinResolvesWhenUsable ==
    /\ [](DiscoverySucceeded => ReadyReceived /\ webRtcParams.set)
    /\ [][(joinPromise = "pending" /\ joinPromise' = "resolved")
             => /\ AckStep /\ DiscoverySucceeded
                /\ udpReady'
                /\ transportEncryptor' # NoEncryptor
                /\ audioPacketizer' # 0 /\ videoPacketizer' # 0]_vars

\* the promise resolved after stop(), with a MediaUdp that is not ready
C39_ResolvedStopped ==
    joinPromise = "resolved" /\ stopCalled /\ ~udpReady /\ selectWaiters[1].by[1] = ws

\* the sockets on which HELLO was handled and that have not closed
Beating == {i \in 1..Len(sockets) : "HELLO" \in sockets[i].served /\ Alive(i)}

\* C18: the heartbeat timer is active only while a socket that received
\* HELLO has not closed, and a HEARTBEAT is sent only on a socket that has
\* received HELLO.
C18_HeartbeatUntilClosed ==
    /\ [](interval = "set" => Beating # {})
    /\ [](\A i \in 1..Len(sockets) :
             "HEARTBEAT" \in OpsSent(sockets[i]) => "HELLO" \in sockets[i].served)

\* C22: once a promise of setProtocols has resolved on the connection, no
\* step changes the connection's stream options.
C22_OptionsImmutable ==
    [][(\E k \in 1..Len(selectWaiters) : selectWaiters[k].state = "resolved")
           => streamOptions' = streamOptions]_vars

AES256 == "aead_aes256_gcm_rtpsize"
XCHACHA20 == "aead_xchacha20_poly1305_rtpsize"

\* C17: every SELECT_PROTOCOL sent asks for aead_aes256_gcm_rtpsize exactly
\* when the modes of READY include it and forceChacha20Encryption was false
\* at the call, and for aead_xchacha20_poly1305_rtpsize in every other case.
C17_ModeSelection ==
    \A k \in 1..Len(selectWaiters) :
        LET w == selectWaiters[k]
            aes == AES256 \in webRtcParams.supportedEncryptionModes /\ ~w.forced
        IN  w.msg # 0 =>
                /\ aes => sockets[w.sock].sent[w.msg].d.mode = AES256
                /\ ~aes => sockets[w.sock].sent[w.msg].d.mode = XCHACHA20

\* AES-256-GCM was advertised and asked for by the ready callback; playStream
\* then forced ChaCha20 and its SELECT_PROTOCOL was sent
C17_Witness ==
    /\ webRtcParams.set /\ AES256 \in webRtcParams.supportedEncryptionModes
    /\ Len(selectWaiters) >= 2
    /\ ~selectWaiters[1].forced /\ selectWaiters[1].msg # 0
    /\ selectWaiters[2].forced /\ selectWaiters[2].msg # 0

----------------------------------------------------------------------------
(***************************************************************************)
(* Stream controller of a Go-Live stream: stop, pause, resume and the      *)
(* 'finish' / 'error' handlers of its pacing streams.  The connection of   *)
(* the controller is the stream connection, Operational when playStream    *)
(* returns the controller.                                                 *)
(***************************************************************************)
MaxStopCalls == 3    \* calls of stop(), by the application and by the handlers
MaxPauses == 1       \* calls of pause() that take effect

NoEffects ==
    [stopCalls |-> 0, callsWhilePending |-> 0, teardowns |-> 0, kills |-> 0,
     stopStream |-> 0, speakingOff |-> 0, videoOff |-> 0, stopped |-> 0,
     finished |-> 0, errors |-> 0, pauses |-> 0, seeks |-> 0]

\* the stream connection after joinVoice, createStream and playStream
OperationalConn ==
    /\ status = [hasSession |-> TRUE, hasToken |-> TRUE, started |-> TRUE,
                 resuming |-> FALSE]
    /\ session = [session_id |-> "s1", token |-> "t1", server |-> "server", calls |-> 2]
    /\ ws = 1
    /\ streamOptions = DefaultStreamOptions
    /\ webRtcParams = [set |-> TRUE, audioSsrc |-> AudioSsrc, videoSsrc |-> VideoSsrc,
                       supportedEncryptionModes |->
                           {"aead_aes256_gcm_rtpsize", "aead_xchacha20_poly1305_rtpsize"}]
    /\ LET opened == <<[NewSocket EXCEPT !.state = "open", !.opened = TRUE,
                                         !.openedWith = <<session>>,
                                         !.served = {"HELLO", "READY"}, !.acks = 2]>>
           s1 == identify(opened, 1)
           s2 == sendOpcode(s1, 1, "VIDEO", [video_ssrc |-> 0])
           s3 == setProtocols(s2, 1, LocalAddr, streamOptions)
           s4 == setProtocols(s3, 1, LocalAddr, streamOptions)
           s5 == sendOpcode(s4, 1, "SPEAKING", [speaking |-> 1])
       IN  sockets = sendOpcode(s5, 1, "VIDEO", [video_ssrc |-> VideoSsrc])
    /\ interval = "set"
    /\ udpSocket = 1
    /\ udpAddr = LocalAddr
    /\ discovery = [sent |-> 1, pending |-> {}, promise |-> <<"resolved">>,
                    first |-> <<[type |-> 2, ip |-> LocalAddr[1], port |-> LocalAddr[2]]>>]
    /\ selectWaiters =
           LET mode == SelectedMode(streamOptions, webRtcParams)
           IN  <<[sock |-> 1, msg |-> 3, forced |-> FALSE, state |-> "resolved",
                  by |-> <<1, 3>>, key |-> NewEncryptor(1, mode, SessionKey)],
                 [sock |-> 1, msg |-> 4, forced |-> FALSE, state |-> "resolved",
                  by |-> <<1, 4>>, key |-> NewEncryptor(2, mode, SessionKey)]>>
    /\ stopCalled = FALSE
    /\ reached = TRUE
    /\ resumePending = FALSE
    /\ transportEncryptor = NewEncryptor(2, SelectedMode(streamOptions, webRtcParams), SessionKey)
    /\ udpReady = TRUE
    /\ packetizers = updatePacketizer(updatePacketizer(<<>>, streamOptions, webRtcParams),
                                      streamOptions, webRtcParams)
    /\ audioPacketizer = 3
    /\ videoPacketizer = 4
    /\ sendTask = [k \in {"audio", "video"} |-> NoTask]
    /\ detached = <<>>
    /\ wire = <<>>
    /\ encLog = <<>>
    /\ frameLog = <<>>
    /\ dropped = NoneDropped

\* the controller with its streams attached, with or without an encoder
\* process of its own
CtlInit ==
    /\ isDestroyed = FALSE
    /\ controllerPaused = FALSE
    /\ streamRefs = [s \in Streams |-> "set"]
    /\ currentCommand \in {"undefined", "running"}
    /\ stopTask = "none"
    /\ seekTask = "none"
    /\ streamConnection = TRUE
    /\ effects = NoEffects

outsideCtl == <<nalVars, rtpVars, streamOptions, webRtcParams, transportEncryptor,
                pts, writableEnded, pacePc, paceFrame, lastHand, session, ws,
                udpSocket, udpAddr, discovery, selectWaiters, reached, resumePending,
                streamer>>

\* a stop() that never returns early
alreadyDestroyed_Never == FALSE

\* if (this.isDestroyed) return
alreadyDestroyed == isDestroyed

\* currentCommand?.kill('SIGKILL'): a process that has exited takes no signal
kill(command) == IF command = "running" THEN "killed" ELSE command

\* stop() up to its first await: the guard, isDestroyed = true and the
\* synchronous part of cleanupCurrentPlayback (streams destroyed, encoder
\* killed); counted holds the events the caller emitted before the call
stopCall(counted) ==
    LET called == [counted EXCEPT
                      !.stopCalls = @ + 1,
                      !.callsWhilePending =
                          IF stopTask \in {"kill", "delay"} THEN @ + 1 ELSE @]
    IN  IF alreadyDestroyed
        THEN /\ effects' = called
             /\ UNCHANGED <<isDestroyed, streamRefs, currentCommand, stopTask,
                            destroyed, syncStream>>
        ELSE /\ isDestroyed' = TRUE
             /\ streamRefs' = [s \in Streams |-> "undefined"]
             /\ destroyed' = [s \in Streams |-> destroyed[s] \/ streamRefs[s] = "set"]
             /\ syncStream' = [s \in Streams |-> syncStream[s] /\ streamRefs[s] # "set"]
             /\ currentCommand' = kill(currentCommand)
             /\ stopTask' = IF currentCommand = "undefined" THEN "delay" ELSE "kill"
             /\ effects' = [called EXCEPT
                               !.teardowns = @ + 1,
                               !.kills = IF currentCommand = "undefined" THEN @ ELSE @ + 1]

\* stop() called by the application
CtlStop ==
    /\ effects.stopCalls < MaxStopCalls
    /\ stopCall(effects)
    /\ UNCHANGED <<controllerPaused, streamConnection, isPaused, status, sockets,
                   interval, stopCalled, udpReady, seekTask, outsideCtl>>

\* 'finish' of the video stream: emit 'finished', stop()
StreamFinish ==
    /\ streamRefs["video"] = "set"
    /\ effects.finished = 0
    /\ effects.stopCalls < MaxStopCalls
    /\ IF ~isDestroyed
       THEN stopCall([effects EXCEPT !.finished = @ + 1])
       ELSE UNCHANGED <<isDestroyed, streamRefs, currentCommand, stopTask, destroyed,
                        syncStream, effects>>
    /\ UNCHANGED <<controllerPaused, streamConnection, isPaused, status, sockets,
                   interval, stopCalled, udpReady, seekTask, outsideCtl>>

\* 'error' of the video or the audio stream: emit 'error', stop()
StreamError(s) ==
    /\ streamRefs[s] = "set"
    /\ effects.errors = 0
    /\ effects.stopCalls < MaxStopCalls
    /\ IF ~isDestroyed
       THEN stopCall([effects EXCEPT !.errors = @ + 1])
       ELSE UNCHANGED <<isDestroyed, streamRefs, currentCommand, stopTask, destroyed,
                        syncStream, effects>>
    /\ UNCHANGED <<controllerPaused, streamConnection, isPaused, status, sockets,
                   interval, stopCalled, udpReady, seekTask, outsideCtl>>

\* the killed encoder emits 'end' or 'error': every cleanupCurrentPlayback
\* that awaits it, of stop() and of seek(), sets currentCommand to undefined
\* and goes on to its 50 ms delay
CommandEnded ==
    /\ currentCommand = "killed"
    /\ stopTask = "kill" \/ seekTask = "kill"
    /\ currentCommand' = "undefined"
    /\ stopTask' = IF stopTask = "kill" THEN "delay" ELSE stopTask
    /\ seekTask' = IF seekTask = "kill" THEN "delay" ELSE seekTask
    /\ UNCHANGED <<isDestroyed, controllerPaused, streamRefs, streamConnection, effects,
                   isPaused, destroyed, syncStream, status, sockets, interval,
                   stopCalled, udpReady, outsideCtl>>

\* the delay is over: streamer.stopStream(), setSpeaking(false),
\* setVideoStatus(false), emit 'stopped'
CleanupDone ==
    LET r == IF streamConnection
             THEN stop(status, sockets, ws)
             ELSE [status |-> status, sockets |-> sockets]
        speaking == sendOpcode(r.sockets, ws, "SPEAKING", [speaking |-> 0])
    IN  /\ stopTask = "delay"
        /\ stopTask' = "done"
        /\ streamConnection' = FALSE
        /\ status' = r.status
        /\ sockets' = sendOpcode(speaking, ws, "VIDEO", [video_ssrc |-> 0])
        /\ interval' = IF streamConnection THEN "null" ELSE interval
        /\ udpReady' = (udpReady /\ ~streamConnection)
        /\ stopCalled' = (stopCalled \/ streamConnection)
        /\ effects' = [effects EXCEPT
                          !.stopStream = IF streamConnection THEN @ + 1 ELSE @,
                          !.speakingOff = @ + 1, !.videoOff = @ + 1, !.stopped = @ + 1]
        /\ UNCHANGED <<isDestroyed, controllerPaused, streamRefs, currentCommand,
                       isPaused, destroyed, syncStream, seekTask, outsideCtl>>

\* StreamController.pause
CtlPause ==
    /\ ~isDestroyed /\ ~controllerPaused
    /\ effects.pauses < MaxPauses
    /\ controllerPaused' = TRUE
    /\ isPaused' = [s \in Streams |-> isPaused[s] \/ streamRefs[s] = "set"]
    /\ sockets' = sendOpcode(sockets, ws, "SPEAKING", [speaking |-> 0])
    /\ effects' = [effects EXCEPT !.pauses = @ + 1]
    /\ UNCHANGED <<isDestroyed, streamRefs, currentCommand, stopTask, streamConnection,
                   destroyed, syncStream, status, interval, stopCalled, udpReady,
                   seekTask, outsideCtl>>

\* StreamController.resume
CtlResume ==
    /\ ~isDestroyed /\ controllerPaused
    /\ controllerPaused' = FALSE
    /\ isPaused' = [s \in Streams |-> isPaused[s] /\ streamRefs[s] # "set"]
    /\ sockets' = sendOpcode(sockets, ws, "SPEAKING", [speaking |-> 1])
    /\ UNCHANGED <<isDestroyed, streamRefs, currentCommand, stopTask, streamConnection,
                   effects, destroyed, syncStream, status, interval, stopCalled,
                   udpReady, seekTask, outsideCtl>>

VideoError == StreamError("video")
AudioError == StreamError("audio")

CtlNext ==
    \/ CtlStop \/ StreamFinish \/ VideoError \/ AudioError \/ CommandEnded
    \/ CleanupDone \/ CtlPause \/ CtlResume

\* C7: whatever the number of stop() calls, by the application while an
\* earlier stop awaits its cleanup or afterwards, and by the 'finish' and
\* 'error' handlers, each part of the teardown (streams destroyed, encoder
\* killed, streamer.stopStream(), SPEAKING off, VIDEO off) and the 'stopped'
\* event happen at most once.
C7_StopOnce ==
    /\ effects.teardowns <= 1 /\ effects.kills <= 1
    /\ effects.stopStream <= 1
    /\ effects.speakingOff <= 1 /\ effects.videoOff <= 1
    /\ effects.stopped <= 1

\* three stop() calls, one by the 'finish' handler and one while the cleanup
\* was pending, with one teardown of each kind and one 'stopped'
C7_Witness ==
    /\ effects.stopCalls = 3 /\ effects.finished = 1
    /\ effects.callsWhilePending >= 1
    /\ effects.teardowns = 1 /\ effects.kills = 1 /\ effects.stopStream = 1
    /\ effects.speakingOff = 1 /\ effects.videoOff = 1 /\ effects.stopped = 1

\* ---- seek ------------------------------------------------------------------
MaxSeeks == 1        \* calls of seek() that pass the guards

isSeekInProgress == seekTask \in {"kill", "delay", "demux"}

\* seek() up to its first await: the guards, setSpeaking(false) and the
\* synchronous part of cleanupCurrentPlayback
CtlSeek ==
    /\ ~isDestroyed /\ ~isSeekInProgress
    /\ effects.seeks < MaxSeeks
    /\ sockets' = sendOpcode(sockets, ws, "SPEAKING", [speaking |-> 0])
    /\ streamRefs' = [s \in Streams |-> "undefined"]
    /\ destroyed' = [s \in Streams |-> destroyed[s] \/ streamRefs[s] = "set"]
    /\ syncStream' = [s \in Streams |-> syncStream[s] /\ streamRefs[s] # "set"]
    /\ currentCommand' = kill(currentCommand)
    /\ seekTask' = IF currentCommand = "undefined" THEN "delay" ELSE "kill"
    /\ effects' = [effects EXCEPT !.seeks = @ + 1]
    /\ UNCHANGED <<isDestroyed, controllerPaused, stopTask, streamConnection, isPaused,
                   status, interval, stopCalled, udpReady, outsideCtl>>

\* the delay of seek's cleanup is over: startNewStream up to await demux,
\* prepareStream has made a new encoder command
SeekStart ==
    /\ seekTask = "delay"
    /\ currentCommand' = "running"
    /\ seekTask' = "demux"
    /\ UNCHANGED <<isDestroyed, controllerPaused, streamRefs, stopTask, streamConnection,
                   effects, isPaused, destroyed, syncStream, status, sockets, interval,
                   stopCalled, udpReady, outsideCtl>>

\* demux(output) returns: with a video track setupStreams makes the two
\* pacing streams and setStreams attaches them; without one the error is
\* caught and logged; then seek() goes on with setSpeaking(true)
SeekDemuxed(video) ==
    /\ seekTask = "demux"
    /\ IF video
       THEN /\ streamRefs' = [s \in Streams |-> "set"]
            /\ destroyed' = [s \in Streams |-> FALSE]
            /\ syncStream' = [s \in Streams |-> TRUE]
            /\ isPaused' = [s \in Streams |-> FALSE]
       ELSE UNCHANGED <<streamRefs, destroyed, syncStream, isPaused>>
    /\ sockets' = sendOpcode(sockets, ws, "SPEAKING", [speaking |-> 1])
    /\ controllerPaused' = FALSE
    /\ seekTask' = "done"
    /\ UNCHANGED <<isDestroyed, currentCommand, stopTask, streamConnection, effects,
                   status, interval, stopCalled, udpReady, outsideCtl>>

\* the output of an encoder that runs has the video track of the input; the
\* output of one that was killed or has exited may have ended before it
SeekDemuxDone ==
    \E video \in (IF currentCommand = "running" THEN {TRUE} ELSE BOOLEAN) :
        SeekDemuxed(video)

\* the encoder process reaches the end of its input and exits
CommandExit ==
    /\ currentCommand = "running"
    /\ currentCommand' = "exited"
    /\ UNCHANGED <<isDestroyed, controllerPaused, streamRefs, stopTask, seekTask,
                   streamConnection, effects, isPaused, destroyed, syncStream, status,
                   sockets, interval, stopCalled, udpReady, outsideCtl>>

SeekNext ==
    \/ CtlStop \/ StreamFinish \/ VideoError \/ AudioError \/ CommandEnded
    \/ CleanupDone \/ CtlPause \/ CtlResume
    \/ CtlSeek \/ SeekStart \/ SeekDemuxDone \/ CommandExit

\* the step makes an encoder command
CommandCreated == currentCommand' = "running" /\ currentCommand # "running"

\* the step makes pacing streams
StreamsCreated == \E s \in Streams : streamRefs'[s] = "set" /\ streamRefs[s] # "set"

\* C28: once stop() has passed its guard no step makes an encoder command
\* or a pacing stream, also when a seek() was in progress at that time; and
\* when the stop() and the seek() have both settled the controller has no
\* video or audio stream and no running encoder.
C28_NothingCreatedAfterStop ==
    /\ [][isDestroyed => ~CommandCreated /\ ~StreamsCreated]_vars
    /\ []((stopTask = "done" /\ ~isSeekInProgress)
              => /\ \A s \in Streams : streamRefs[s] = "undefined"
                 /\ currentCommand # "running")

\* C29: a stop() that passed its guard eventually completes its teardown:
\* streamer.stopStream() is called and 'stopped' is emitted, whether the
\* encoder runs, has exited or was never started.
C29_StopCompletes ==
    isDestroyed ~> (stopTask = "done" /\ effects.stopStream = 1 /\ effects.stopped = 1)

\* C30: the step that ends the teardown of stop() sends SPEAKING(speaking 0)
\* and VIDEO(video_ssrc 0) on the control socket of the streaming connection,
\* which was open before the step, and closes that socket.
C30_StatusClearedBeforeClose ==
    [][(stopTask = "delay" /\ stopTask' = "done" /\ ws # 0 /\ sockets[ws].state = "open")
          => /\ sockets'[ws].state \in {"closing", "closed"}
             /\ sockets'[ws].sent =
                    sockets[ws].sent \o <<[op |-> "SPEAKING", d |-> [speaking |-> 0]],
                                          [op |-> "VIDEO", d |-> [video_ssrc |-> 0]]>>]_vars

----------------------------------------------------------------------------
(***************************************************************************)
(* Demuxer: parameter sets on IDR access units.                            *)
(* A NAL unit is modelled by its unit type and its origin ("in" = from the *)
(* bitstream, "cfg" = from the container's avcC/hvcC record); an access    *)
(* unit is the sequence of NAL units that splitNalu returns and mergeNalu  *)
(* joins again.                                                            *)
(***************************************************************************)
MaxNalus == 3
MaxParamSets == 1

H264Types == {"IDR", "SPS", "PPS", "SLICE"}
H265Types == {"IDR_W_RADL", "IDR_N_LP", "VPS", "SPS", "PPS", "SLICE"}

Nalu(t, o) == [type |-> t, origin |-> o]

\* n copies of a parameter set of type t, as parseavcC / parsehvcC return them
ParamSetList(t, n) == [i \in 1..n |-> Nalu(t, "cfg")]

\* the access units the demuxer can read: 1..MaxNalus NAL units of the codec
FramesOf(types) ==
    UNION { [1..n -> {Nalu(t, "in") : t \in types}] : n \in 1..MaxNalus }

HasType(nalus, types) == \E i \in 1..Len(nalus) : nalus[i].type \in types

h264AddParamSets(frame, paramSets) ==
    LET isIDR  == HasType(frame, {"IDR"})
        hasSPS == HasType(frame, {"SPS"})
        hasPPS == HasType(frame, {"PPS"})
        chunks == (IF ~hasPPS THEN paramSets.sps ELSE <<>>)
                  \o (IF ~hasSPS THEN paramSets.pps ELSE <<>>)
    IN  IF ~isIDR THEN frame ELSE chunks \o frame

h265AddParamSets(frame, paramSets) ==
    LET isIDR  == HasType(frame, {"IDR_N_LP", "IDR_W_RADL"})
        hasVPS == HasType(frame, {"VPS"})
        hasSPS == HasType(frame, {"SPS"})
        hasPPS == HasType(frame, {"PPS"})
        chunks == (IF ~hasVPS THEN paramSets.vps ELSE <<>>)
                  \o (IF ~hasPPS THEN paramSets.sps ELSE <<>>)
                  \o (IF ~hasSPS THEN paramSets.pps ELSE <<>>)
    IN  IF ~isIDR THEN frame ELSE chunks \o frame

NalIdle ==
    /\ nalCodec = "H264"
    /\ nalParamSets = [vps |-> <<>>, sps |-> <<>>, pps |-> <<>>]
    /\ nalFrame = <<>>
    /\ nalOut = <<>>
    /\ nalPc = "idle"

NalInit ==
    /\ nalCodec \in {"H264", "H265"}
    /\ \E nv \in 1..MaxParamSets, ns \in 1..MaxParamSets, np \in 1..MaxParamSets :
          nalParamSets = [vps |-> IF nalCodec = "H265" THEN ParamSetList("VPS", nv) ELSE <<>>,
                          sps |-> ParamSetList("SPS", ns),
                          pps |-> ParamSetList("PPS", np)]
    /\ nalFrame \in FramesOf(IF nalCodec = "H264" THEN H264Types ELSE H265Types)
    /\ nalOut = <<>>
    /\ nalPc = "read"

\* readFrame: a video packet goes through the codec's AddParamSets and into vPipe
ReadFrameH264 ==
    /\ nalPc = "read" /\ nalCodec = "H264"
    /\ nalOut' = h264AddParamSets(nalFrame, nalParamSets)
    /\ nalPc' = "pushed"
    /\ UNCHANGED <<nalCodec, nalParamSets, nalFrame, outsideNal>>

ReadFrameH265 ==
    /\ nalPc = "read" /\ nalCodec = "H265"
    /\ nalOut' = h265AddParamSets(nalFrame, nalParamSets)
    /\ nalPc' = "pushed"
    /\ UNCHANGED <<nalCodec, nalParamSets, nalFrame, outsideNal>>

\* the next packet of the same input is read
ReadNext ==
    /\ nalPc = "pushed"
    /\ nalFrame' \in FramesOf(IF nalCodec = "H264" THEN H264Types ELSE H265Types)
    /\ nalOut' = <<>>
    /\ nalPc' = "read"
    /\ UNCHANGED <<nalCodec, nalParamSets, outsideNal>>

NalNext == ReadFrameH264 \/ ReadFrameH265 \/ ReadNext

IdrTypes == {"IDR", "IDR_W_RADL", "IDR_N_LP"}
RequiredSets == IF nalCodec = "H264" THEN {"SPS", "PPS"} ELSE {"VPS", "SPS", "PPS"}
\* position of the first IDR NAL unit of an access unit that has one
FirstIdr(nalus) ==
    CHOOSE i \in 1..Len(nalus) :
        /\ nalus[i].type \in IdrTypes
        /\ \A j \in 1..(i - 1) : nalus[j].type \notin IdrTypes

\* C2: every IDR access unit comes out with each required parameter set
\* (SPS, PPS, and VPS for H.265) before its IDR, whatever parameter sets the
\* input already had; a non-IDR access unit comes out unchanged.
C2_ParamSetsBeforeIdr ==
    nalPc = "pushed" =>
        IF HasType(nalFrame, IdrTypes)
        THEN \A t \in RequiredSets :
                \E i \in 1..(FirstIdr(nalOut) - 1) : nalOut[i].type = t
        ELSE nalOut = nalFrame

----------------------------------------------------------------------------
(***************************************************************************)
(* Streamer and playStream: what a call needs before it starts a stream.   *)
(* streamer.voiceConnection is "undefined", "joined" (the gateway has not  *)
(* told the session id yet) or "session"; streamer.gateway is the list of  *)
(* opcodes broadcast on the gateway; streamer.calls has one record per     *)
(* call of the API, with the state of the promise it returned.             *)
(***************************************************************************)
MaxCalls == 3

StreamTypes == {"go-live", "camera"}

\* Streamer.sendOpcode: client.ws.broadcast({op, d})
broadcast(s, op, d) == [s EXCEPT !.gateway = Append(@, [op |-> op, d |-> d])]

\* if (!this.voiceConnection)
noVoiceConnection(s) == s.voiceConnection = "undefined"

\* a playStream that takes any input
noVideoStream_Never(input) == FALSE

\* if (!demuxResult.video)
noVideoStream(input) == ~input.video

signalVideo(s, video_enabled) ==
    IF noVoiceConnection(s) THEN s
    ELSE broadcast(s, "VOICE_STATE_UPDATE",
                   IF video_enabled THEN "self_video" ELSE "no_video")

signalStream(s) ==
    IF noVoiceConnection(s) THEN s
    ELSE broadcast(broadcast(s, "STREAM_CREATE", "guild"),
                   "STREAM_SET_PAUSED", "unpaused")

signalStopStream(s) ==
    IF noVoiceConnection(s) THEN s ELSE broadcast(s, "STREAM_DELETE", "stream_key")

signalLeaveVoice(s) == broadcast(s, "VOICE_STATE_UPDATE", "leave")

\* the record of a call; input and type are those of playStream
Call(op, result, input, type) ==
    [op |-> op, result |-> result, video |-> input.video, type |-> type]

NoInput == [video |-> FALSE]

\* Streamer.createStream up to the return of its promise: the streamer and
\* voiceConnection.streamConnection afterwards, and the promise's state (a
\* throw in the executor rejects the promise)
createStream(s, conn) ==
    IF ~s.user
    THEN [streamer |-> s, streamConnection |-> conn, result |-> "rejected"]
    ELSE IF noVoiceConnection(s)
    THEN [streamer |-> s, streamConnection |-> conn, result |-> "rejected"]
    ELSE IF s.voiceConnection # "session"
    THEN [streamer |-> signalStream(s), streamConnection |-> conn,
          result |-> "rejected"]
    ELSE [streamer |-> signalStream(s), streamConnection |-> TRUE,
          result |-> "pending"]

logCall(s, call) == [s EXCEPT !.calls = Append(@, call)]

\* Streamer.joinVoice: a new voice connection, without a stream connection
JoinVoice ==
    /\ Len(streamer.calls) < MaxCalls
    /\ IF ~streamer.user
       THEN /\ streamer' = logCall(streamer, Call("joinVoice", "rejected", NoInput, "none"))
            /\ UNCHANGED streamConnection
       ELSE /\ streamer' =
                  logCall(signalVideo([streamer EXCEPT !.voiceConnection = "joined"],
                                      FALSE),
                          Call("joinVoice", "pending", NoInput, "none"))
            /\ streamConnection' = FALSE
    /\ UNCHANGED <<nalVars, mediaVars, rtpVars, paceVars, connVars, isDestroyed,
                   controllerPaused, streamRefs, currentCommand, stopTask, seekTask,
                   effects>>

\* the gateway's VOICE_STATE_UPDATE for this user: voiceConn.setSession
VoiceStateUpdate ==
    /\ streamer.voiceConnection = "joined"
    /\ streamer' = [streamer EXCEPT !.voiceConnection = "session"]
    /\ UNCHANGED <<nalVars, mediaVars, rtpVars, paceVars, connVars, ctlVars>>

\* Streamer.createStream called by the application
CreateStream ==
    LET r == createStream(streamer, streamConnection)
    IN  /\ Len(streamer.calls) < MaxCalls
        /\ streamer' = logCall(r.streamer, Call("createStream", r.result, NoInput, "none"))
        /\ streamConnection' = r.streamConnection
        /\ UNCHANGED <<nalVars, mediaVars, rtpVars, paceVars, connVars, isDestroyed,
                       controllerPaused, streamRefs, currentCommand, stopTask, seekTask,
                       effects>>

\* playStream up to await demux(input)
PlayStreamCall(input, type) ==
    /\ Len(streamer.calls) < MaxCalls
    /\ streamer' =
           logCall(streamer,
                   Call("playStream",
                        IF noVoiceConnection(streamer) THEN "rejected" ELSE "demuxing",
                        input, type))
    /\ UNCHANGED <<nalVars, mediaVars, rtpVars, paceVars, connVars, ctlVars>>

PlayStreamStart ==
    \E video \in BOOLEAN, type \in StreamTypes : PlayStreamCall([video |-> video], type)

\* playStream from the result of demux to the udp connection it awaits:
\* the video check, then signalVideo(true) on the voice connection for
\* "camera" (a TypeError without a voice connection) or createStream()
Demuxed(i) ==
    LET call == streamer.calls[i]
        r == IF noVideoStream(call)
             THEN [streamer |-> streamer, streamConnection |-> streamConnection,
                   result |-> "rejected"]
             ELSE IF call.type = "camera"
             THEN [streamer |-> signalVideo(streamer, TRUE),
                   streamConnection |-> streamConnection,
                   result |-> IF noVoiceConnection(streamer)
                              THEN "rejected" ELSE "pending"]
             ELSE createStream(streamer, streamConnection)
    IN  /\ call.op = "playStream" /\ call.result = "demuxing"
        /\ streamer' = [r.streamer EXCEPT !.calls[i].result = r.result]
        /\ streamConnection' = r.streamConnection
        /\ UNCHANGED <<nalVars, mediaVars, rtpVars, paceVars, connVars, isDestroyed,
                       controllerPaused, streamRefs, currentCommand, stopTask, seekTask,
                       effects>>

DemuxDone == \E i \in 1..Len(streamer.calls) : Demuxed(i)

\* Streamer.stopStream; the stream connection it stops has no socket before
\* its tokens arrive
StopStream ==
    /\ Len(streamer.calls) < MaxCalls
    /\ IF noVoiceConnection(streamer) \/ ~streamConnection
       THEN streamer' = logCall(streamer, Call("stopStream", "returned", NoInput, "none"))
       ELSE streamer' = logCall(signalStopStream(streamer),
                                Call("stopStream", "returned", NoInput, "none"))
    /\ streamConnection' = FALSE
    /\ UNCHANGED <<nalVars, mediaVars, rtpVars, paceVars, connVars, isDestroyed,
                   controllerPaused, streamRefs, currentCommand, stopTask, seekTask,
                   effects>>

\* Streamer.leaveVoice
LeaveVoice ==
    /\ Len(streamer.calls) < MaxCalls
    /\ streamer' = logCall([signalLeaveVoice(streamer) EXCEPT
                               !.voiceConnection = "undefined"],
                           Call("leaveVoice", "returned", NoInput, "none"))
    /\ streamConnection' = FALSE
    /\ UNCHANGED <<nalVars, mediaVars, rtpVars, paceVars, connVars, isDestroyed,
                   controllerPaused, streamRefs, currentCommand, stopTask, seekTask,
                   effects>>

StreamerNext ==
    \/ JoinVoice \/ VoiceStateUpdate \/ CreateStream \/ PlayStreamStart \/ DemuxDone
    \/ StopStream \/ LeaveVoice

\* the streamer of a client, logged in or not, before any call
StreamerInit ==
    /\ streamer \in [user : BOOLEAN, voiceConnection : {"undefined"},
                     gateway : {<<>>}, calls : {<<>>}]

\* the streamer of a logged-in client before any call
StreamerIdle ==
    streamer = [user |-> TRUE, voiceConnection |-> "undefined", gateway |-> <<>>,
                calls |-> <<>>]

\* the streamer after joinVoice, createStream and playStream
StreamerStreaming ==
    streamer = [user |-> TRUE, voiceConnection |-> "session",
                gateway |-> <<[op |-> "VOICE_STATE_UPDATE", d |-> "no_video"],
                              [op |-> "STREAM_CREATE", d |-> "guild"],
                              [op |-> "STREAM_SET_PAUSED", d |-> "unpaused"]>>,
                calls |-> <<Call("joinVoice", "resolved", NoInput, "none"),
                            Call("playStream", "resolved", [video |-> TRUE], "go-live")>>]

\* the step made the call op
NewCall(op) ==
    /\ Len(streamer'.calls) = Len(streamer.calls) + 1
    /\ streamer'.calls[Len(streamer'.calls)].op = op

LastResult == streamer.calls[Len(streamer.calls)].result

\* the step neither broadcast a gateway opcode nor touched the stream connection
NothingStarted ==
    /\ streamer'.gateway = streamer.gateway
    /\ streamConnection' = streamConnection

\* C25: a createStream or a playStream called without a voice connection is
\* rejected in the call, and a playStream whose input has no video track is
\* rejected when demux returns; the rejecting step broadcasts no gateway
\* opcode and leaves voiceConnection.streamConnection as it was.
C25_NoPrerequisiteNoEffect ==
    [][/\ (NewCall("createStream") \/ NewCall("playStream")) /\ noVoiceConnection(streamer)
          => LastResult' = "rejected" /\ NothingStarted
       /\ \A i \in 1..Len(streamer.calls) :
             /\ streamer.calls[i].result = "demuxing"
             /\ streamer'.calls[i].result # "demuxing"
             /\ ~streamer.calls[i].video
             => streamer'.calls[i].result = "rejected" /\ NothingStarted]_vars

\* createStream before joinVoice and, with the voice connection up, a
\* playStream of an input without video: both rejected, and the gateway saw
\* only joinVoice's VOICE_STATE_UPDATE
C25_Witness ==
    /\ streamer.user /\ Len(streamer.calls) = 3
    /\ streamer.calls[1] = Call("createStream", "rejected", NoInput, "none")
    /\ streamer.calls[2].op = "joinVoice"
    /\ streamer.calls[3] = Call("playStream", "rejected", [video |-> FALSE], "go-live")
    /\ streamer.voiceConnection = "session"
    /\ ~streamConnection
    /\ streamer.gateway = <<[op |-> "VOICE_STATE_UPDATE", d |-> "no_video"]>>

----------------------------------------------------------------------------
\* the controller before anything happened
CtlIdle ==
    /\ isDestroyed = FALSE
    /\ controllerPaused = FALSE
    /\ streamRefs = [s \in Streams |-> "undefined"]
    /\ currentCommand = "undefined"
    /\ stopTask = "none"
    /\ seekTask = "none"
    /\ streamConnection = FALSE
    /\ effects = NoEffects

InitNal == NalInit /\ RtpIdle /\ PaceInit /\ ConnInit /\ CtlIdle /\ StreamerIdle

SpecNal == InitNal /\ [][NalNext]_vars

InitPic == RtpInitFrom(PictureOptions) /\ NalIdle /\ PaceInit /\ ConnInit /\ CtlIdle /\ StreamerIdle
SpecPic == InitPic /\ [][RtpNext]_vars
InitOpus == RtpInit /\ NalIdle /\ PaceInit /\ ConnInit /\ CtlIdle /\ StreamerIdle
SpecOpus == InitOpus /\ [][OpusNext]_vars
InitSend == RtpInit /\ NalIdle /\ PaceInit /\ ConnInit /\ CtlIdle /\ StreamerIdle
SpecSend == InitSend /\ [][SendNext]_vars
InitRtp == RtpInit /\ NalIdle /\ PaceInit /\ ConnInit /\ CtlIdle /\ StreamerIdle

SpecSsrc == InitRtp /\ [][SsrcNext]_vars

SpecRtp == InitRtp /\ [][RtpNext]_vars

InitSelect ==
    /\ ConnInit /\ NalIdle /\ PaceInit /\ CtlIdle /\ StreamerIdle
    /\ \E options \in ForceOptions : RtpIdleWith(options)
SpecSelect == InitSelect /\ [][SelectNext]_vars
InitBeat == ConnInit /\ RtpIdle /\ NalIdle /\ PaceInit /\ CtlIdle /\ StreamerIdle
SpecBeat == InitBeat /\ [][BeatNext]_vars
InitConn == ConnInit /\ RtpIdle /\ NalIdle /\ PaceInit /\ CtlIdle /\ StreamerIdle

InitStart == ConnInit /\ RtpIdle /\ NalIdle /\ PaceInit /\ CtlIdle /\ StreamerIdle

SpecStart == InitStart /\ [][StartNext]_vars

SpecConn == InitConn /\ [][ConnNext]_vars

InitStop == ConnInit /\ RtpIdle /\ NalIdle /\ PaceInit /\ CtlIdle /\ StreamerIdle

SpecStop == InitStop /\ [][StopNext]_vars

InitGate == CtlInit /\ OperationalConn /\ PaceInit /\ NalIdle /\ StreamerStreaming

SpecGate == InitGate /\ [][GateNext]_vars

InitRestart == ConnInit /\ RtpIdle /\ NalIdle /\ PaceInit /\ CtlIdle /\ StreamerIdle

SpecRestart == InitRestart /\ [][RestartNext]_vars

InitCtl == CtlInit /\ OperationalConn /\ PaceInit /\ NalIdle /\ StreamerStreaming

SpecCtl == InitCtl /\ [][CtlNext]_vars

InitSeek == CtlInit /\ OperationalConn /\ PaceInit /\ NalIdle /\ StreamerStreaming

SpecSeek == InitSeek /\ [][SeekNext]_vars

\* the event loop delivers the 'end' of a killed encoder and the timeout of
\* the cleanup delay
SpecSeekFair == SpecSeek /\ WF_vars(CommandEnded) /\ WF_vars(CleanupDone)

InitPace == PaceInit /\ NalIdle /\ RtpIdle /\ ConnInit /\ CtlIdle /\ StreamerIdle

SpecPace == InitPace /\ [][PaceNext]_vars

\* timers fire, _sendFrame settles and the source of a stream hands over its
\* next frame once the callback of the previous one was called
PaceFair ==
    \A s \in Streams :
        /\ WF_vars(Write(s)) /\ WF_vars(PauseTimer(s)) /\ WF_vars(SyncTimer(s))
        /\ WF_vars(FrameSent(s)) /\ WF_vars(SleepDone(s))

SpecPaceFair == SpecPace /\ PaceFair

SpecSync == InitPace /\ [][SyncNext]_vars

SpecSyncFair == SpecSync /\ PaceFair

InitStreamer == StreamerInit /\ ConnInit /\ RtpIdle /\ NalIdle /\ PaceInit /\ CtlIdle

SpecStreamer == InitStreamer /\ [][StreamerNext]_vars
====
